---- MODULE Spec2Model ----
(***************************************************************************)
(* A model of the interprocess transport layer: the named-pipe connect     *)
(* protocol (busy retry loop), the FileHandle I/O wrappers with their      *)
(* broken-pipe remapping, the message-typed writers, the message-mode      *)
(* receive path (try_recv_msg / recv_msg), the life cycle of a named-pipe  *)
(* stream and its handle (split, drop, disconnect_without_flushing,        *)
(* from_raw_handle, into_raw_handle), the owned halves of a Unix-domain   *)
(* socket stream (into_split, reunite, shutdown), the ancillary data       *)
(* codec (dispatch and parsing of control-message records), the exchange   *)
(* of one line each way over split duplex byte streams, and the            *)
(* asynchronous read of a socket stream (poll_read).                       *)
(*                                                                         *)
(* Each subsystem has its own specification (SpecConnect, SpecIO,          *)
(* SpecRecv, SpecRecvConc, LiveRecv, SpecLife, SpecSock, SpecCodec,        *)
(* LiveDuplex, SpecPoll); a specification leaves the variables of the      *)
(* other subsystems at their initial values.                               *)
(***************************************************************************)
EXTENDS Integers, Sequences, FiniteSets, TLC

VARIABLES
    \* ---- the named pipe as the OS sees it (connect protocol) ----
    total,        \* server instances of the pipe that exist
    busy,         \* instances currently occupied by a client
    defaultWait,  \* nDefaultTimeOut the server gave CreateNamedPipe, in ticks
    \* ---- one connect call ----
    cpc,          \* "idle" | "open" | "wait" | "done": position inside _connect
    entry,        \* the public entry point that was called
    ctimeout,     \* the WaitTimeout handed to _connect
    waited,       \* ticks elapsed inside the current WaitNamedPipeW call
    blocked,      \* the call has spent time blocked inside WaitNamedPipeW
    availAtCall,  \* free instances at the moment connect was called
    lastOpen,     \* outcome of the latest connect_without_waiting
    lastWait,     \* outcome of the latest wait_for_server
    sawBusy,      \* an open attempt of this call failed with ERROR_PIPE_BUSY
    waitsSinceOpen, \* wait_for_server calls completed since the latest open attempt
    cret,         \* what connect returned to its caller
    cIsServer,    \* is_server of the stream a successful connect built
    \* ---- FileHandle I/O ----
    peer,         \* "open" | "closed" | "disconnected": the other end
    ioOp,         \* the operation last called
    ioLen,        \* length of the buffer it was given
    ioOs,         \* what the OS call answered
    ioRes,        \* what the operation returned
    ioTy,         \* the stream type the operation was called on, with its mode tags
    \* ---- message-mode receive ----
    pipeQ,        \* messages queued on the pipe towards this end, oldest first
    rpeer,        \* "open" | "closed": the sending end
    rcv,          \* per receiver: the state of its try_recv_msg / recv_msg call
    sentLog,      \* the messages the peer has sent, in order
    recvLog,      \* the messages the receive calls have returned, in order
    \* ---- life cycle of one named-pipe stream and its handle ----
    strm,         \* the stream value: its type, its role, who owns the handle now
    strong,       \* strong count of the Arc<RawPipeStream> the halves share
    half,         \* per half of a split stream: not there, live, being dropped, dropped
    hopen,        \* the native handle is open (CloseHandle has not been called on it)
    calls,        \* the native calls that ended the connection, in the order issued
    lastIo,       \* the latest I/O operation of an owner and whether the handle was valid
    lop,          \* the latest life-cycle operation, its result and what it issued
    \* ---- Unix-domain socket streams (Tokio): split, reunite, shutdown ----
    ud,           \* per stream: whole, split or gone, and its descriptor
    uhalf,        \* per stream and direction: the owned half, if there is one
    usock,        \* per descriptor: open, and which directions are shut down
    ulast,        \* the latest operation on a stream or half and its result
    \* ---- ancillary data: one control buffer and its parse ----
    cbuf,         \* the raw records of the control buffer, in arrival order
    corig,        \* per record: the message it was constructed from, if any
    cphase,       \* "recv": the buffer is being filled | "parse": it is being parsed
    cres,         \* the results the current pass over the buffer has yielded
    cprev,        \* the results of the latest complete pass before this one
    \* ---- one line each way over split duplex byte streams ----
    dconn,        \* per connection: "none" | "open"
    dep,          \* per connection and endpoint: its task, bytes written, bytes read
    dpipe,        \* per connection and endpoint: the bytes on their way to it
    \* ---- asynchronous read of a socket stream ----
    pq,           \* the bytes queued on the socket, oldest first
    pclosed,      \* the peer has closed its end
    pnext,        \* the number of the next byte the peer sends
    pgot,         \* the bytes the polls have reported to the caller, in order
    pfut,         \* "none" | "pending" | "dropped": the read future
    plast         \* the latest poll, what it found queued and what it answered

pipeVars == <<total, busy, defaultWait>>
callVars == <<cpc, entry, ctimeout, waited, blocked, availAtCall, lastOpen,
              lastWait, sawBusy, waitsSinceOpen, cret, cIsServer>>
connVars == <<pipeVars, callVars>>
ioVars == <<peer, ioOp, ioLen, ioOs, ioRes, ioTy>>
recvVars == <<pipeQ, rpeer, rcv, sentLog, recvLog>>
lifeVars == <<strm, strong, half, hopen, calls, lastIo, lop>>
sockVars == <<ud, uhalf, usock, ulast>>
codecVars == <<cbuf, corig, cphase, cres, cprev>>
duplexVars == <<dconn, dep, dpipe>>
pollVars == <<pq, pclosed, pnext, pgot, pfut, plast>>
otherVars == <<codecVars, duplexVars, pollVars>>
vars == <<connVars, ioVars, recvVars, lifeVars, sockVars, otherVars>>

-----------------------------------------------------------------------------
(* Bounds of the model *)

MaxInstances == 2

MaxDefaultWait == 2

MaxBuf == 2

MaxMsgLen == 2

MaxQueue == 2

\* Messages the peer sends over the life of a connection.
MaxSends == 3

\* Messages the peer sends where two receivers read or fairness is assumed.
ConcSends == 2

\* Records in one control buffer.
MaxRecords == 2

\* Descriptors in one descriptor-array message.
MaxFds == 2

\* Bytes of a line before its newline.
MaxLine == 2

\* Bytes a pipe holds in one direction.
PipeCap == 1

\* Bytes the peer sends over the life of a socket stream.
MaxStream == 3

-----------------------------------------------------------------------------
(* io::Error and io::Result *)

ERROR_PIPE_BUSY == "ERROR_PIPE_BUSY"

ERROR_PIPE_NOT_CONNECTED == "ERROR_PIPE_NOT_CONNECTED"

ERROR_MORE_DATA == "ERROR_MORE_DATA"

\* std's mapping of a Win32 code to an io::ErrorKind, as e.kind() reports it.
decode_error_kind(code) ==
    CASE code \in {"ERROR_BROKEN_PIPE", "ERROR_NO_DATA"} -> "BrokenPipe"
      [] code = "ERROR_FILE_NOT_FOUND" -> "NotFound"
      [] code = "ERROR_ACCESS_DENIED" -> "PermissionDenied"
      [] code = "ERROR_SEM_TIMEOUT" -> "TimedOut"
      [] OTHER -> "Other"

NoErr == [code |-> "none", kind |-> "none", payload |-> "none"]

\* io::Error::last_os_error() after a failed call whose GetLastError is code.
last_os_error(code) ==
    [code |-> code, kind |-> decode_error_kind(code), payload |-> "none"]

\* io::Error::new(kind, payload): carries no OS code.
custom_error(kind, payload) == [code |-> "none", kind |-> kind, payload |-> payload]

Ok(v) == [tag |-> "ok", val |-> v, err |-> NoErr]

Err(e) == [tag |-> "err", val |-> 0, err |-> e]

None == [tag |-> "none", val |-> 0, err |-> NoErr]

IsOk(r) == r.tag = "ok"

IsErr(r) == r.tag = "err"

\* An OS call's raw answer: success flag, the count (or handle) it wrote through
\* its out-parameter, and GetLastError.
OsOk(n) == [success |-> TRUE, n |-> n, code |-> "none"]

OsFail(code) == [success |-> FALSE, n |-> 0, code |-> code]

\* A failed ReadFile that still transferred n bytes (ERROR_MORE_DATA).
OsFailN(code, n) == [success |-> FALSE, n |-> n, code |-> code]

\* ok_or_ret_errno!(success => value)
ok_or_ret_errno(os) == IF os.success THEN Ok(os.n) ELSE Err(last_os_error(os.code))

-----------------------------------------------------------------------------
(* Connect protocol *)

WaitTimeout_DEFAULT == 0

EntryPoints ==
    {"PipeStream::connect", "PipeStream::connect_to_remote",
     "Stream::connect", "Stream::connect_to_remote", "connect"}

\* The WaitTimeout each public entry point hands to _connect.
EntryTimeout(e) ==
    CASE e = "PipeStream::connect" -> WaitTimeout_DEFAULT
      [] e = "PipeStream::connect_to_remote" -> WaitTimeout_DEFAULT
      [] e = "Stream::connect" -> WaitTimeout_DEFAULT
      [] e = "Stream::connect_to_remote" -> WaitTimeout_DEFAULT
      [] e = "connect" -> WaitTimeout_DEFAULT

avail == total - busy

\* CreateFileW on the pipe path: what the OS can answer in the current state.
\* The handle of a successful open is numbered by the instance it occupies.
CreateFileOutcomes ==
    IF total = 0 THEN {OsFail("ERROR_FILE_NOT_FOUND")}
    ELSE IF avail = 0 THEN {OsFail(ERROR_PIPE_BUSY)}
    ELSE {OsOk(busy + 1), OsFail("ERROR_ACCESS_DENIED")}

\* connect_without_waiting: Ok(handle) or Err(last_os_error()).
connect_without_waiting(os) ==
    IF os.success THEN Ok(os.n) ELSE Err(last_os_error(os.code))

\* The wait WaitNamedPipeW performs for nTimeOut: 0 is NMPWAIT_USE_DEFAULT_WAIT,
\* the time-out the server gave when it created the pipe.
WaitWindow(timeout) == IF timeout = 0 THEN defaultWait ELSE timeout

\* wait_for_server: Ok(()) or Err(last_os_error()).
wait_for_server(os) ==
    IF os.success THEN Ok(0) ELSE Err(last_os_error(os.code))

\* _connect, the arm taken on the outcome of an open attempt: a busy error
\* goes to wait_for_server, anything else is returned.
connect_on_open_ReturnBusy(res) == [pc |-> "done", ret |-> res]

connect_on_open(res) ==
    IF IsErr(res) /\ res.err.code = ERROR_PIPE_BUSY
    THEN [pc |-> "wait", ret |-> None]
    ELSE [pc |-> "done", ret |-> res]

\* _connect, after wait_for_server(..)?: an error leaves the function, success
\* continues the loop.
connect_on_wait_IgnoreError(w) == [pc |-> "open", ret |-> None]

connect_on_wait_NoRetry(w) ==
    IF IsErr(w) THEN [pc |-> "done", ret |-> w] ELSE [pc |-> "wait", ret |-> None]

connect_on_wait(w) ==
    IF IsErr(w) THEN [pc |-> "done", ret |-> w] ELSE [pc |-> "open", ret |-> None]

\* RawPipeStream::connect / Stream::_connect: wrap the handle, role client.
RawPipeStream_connect_is_server_True == TRUE

RawPipeStream_connect_is_server == FALSE

ConnInit ==
    /\ total \in 0..MaxInstances
    /\ busy \in 0..total
    /\ defaultWait \in 1..MaxDefaultWait
    /\ cpc = "idle"
    /\ entry = "connect"
    /\ ctimeout = WaitTimeout_DEFAULT
    /\ waited = 0
    /\ blocked = FALSE
    /\ availAtCall = 0
    /\ lastOpen = None
    /\ lastWait = None
    /\ sawBusy = FALSE
    /\ waitsSinceOpen = 0
    /\ cret = None
    /\ cIsServer = FALSE

\* The caller invokes one of the connect entry points.
ConnectCall ==
    /\ cpc = "idle"
    /\ \E e \in EntryPoints :
          /\ entry' = e
          /\ ctimeout' = EntryTimeout(e)
    /\ cpc' = "open"
    /\ availAtCall' = avail
    /\ waited' = 0
    /\ blocked' = FALSE
    /\ lastOpen' = None
    /\ lastWait' = None
    /\ sawBusy' = FALSE
    /\ waitsSinceOpen' = 0
    /\ cret' = None
    /\ UNCHANGED <<pipeVars, cIsServer, ioVars, recvVars, lifeVars, sockVars, otherVars>>

\* One iteration of the loop up to the match: connect_without_waiting.
ConnectOpen ==
    /\ cpc = "open"
    /\ \E os \in CreateFileOutcomes :
          LET res == connect_without_waiting(os)
              nx == connect_on_open(res)
          IN /\ lastOpen' = res
             /\ sawBusy' = (sawBusy \/ (~os.success /\ os.code = ERROR_PIPE_BUSY))
             /\ cpc' = nx.pc
             /\ cret' = nx.ret
             /\ busy' = IF os.success THEN busy + 1 ELSE busy
             /\ cIsServer' = IF IsOk(nx.ret) THEN RawPipeStream_connect_is_server
                             ELSE cIsServer
    /\ waited' = 0
    /\ waitsSinceOpen' = 0
    /\ UNCHANGED <<total, defaultWait, entry, ctimeout, blocked, availAtCall,
                   lastWait, ioVars, recvVars, lifeVars, sockVars, otherVars>>

\* A wait_for_server call completes with the answer os of WaitNamedPipeW.
WaitCompletes(os) ==
    LET w == wait_for_server(os)
        nx == connect_on_wait(w)
    IN /\ lastWait' = w
       /\ waitsSinceOpen' = IF waitsSinceOpen < 2 THEN waitsSinceOpen + 1 ELSE 2
       /\ cpc' = nx.pc
       /\ cret' = nx.ret
       /\ UNCHANGED <<pipeVars, entry, ctimeout, waited, blocked, availAtCall,
                      lastOpen, sawBusy, cIsServer, ioVars, recvVars, lifeVars, sockVars, otherVars>>

\* WaitNamedPipeW finds a free instance and returns TRUE.
ConnectWaitOk ==
    /\ cpc = "wait"
    /\ total > 0 /\ avail > 0
    /\ WaitCompletes(OsOk(0))

\* WaitNamedPipeW fails: the pipe is gone, or the wait window has elapsed with
\* no instance free.
ConnectWaitFail ==
    /\ cpc = "wait"
    /\ \E code \in {"ERROR_FILE_NOT_FOUND", "ERROR_SEM_TIMEOUT"} :
          /\ code = "ERROR_FILE_NOT_FOUND" => total = 0
          /\ code = "ERROR_SEM_TIMEOUT" =>
                total > 0 /\ avail = 0 /\ waited >= WaitWindow(ctimeout)
          /\ WaitCompletes(OsFail(code))

\* Time passes while the call is blocked inside WaitNamedPipeW.
ConnectWaitTick ==
    /\ cpc = "wait"
    /\ total > 0 /\ avail = 0
    /\ waited < WaitWindow(ctimeout)
    /\ waited' = waited + 1
    /\ blocked' = TRUE
    /\ UNCHANGED <<pipeVars, cpc, entry, ctimeout, availAtCall, lastOpen, lastWait,
                   sawBusy, waitsSinceOpen, cret, cIsServer, ioVars, recvVars, lifeVars, sockVars, otherVars>>

\* The caller has its result; a later call starts afresh.
ConnectReturn ==
    /\ cpc = "done"
    /\ cpc' = "idle"
    /\ UNCHANGED <<pipeVars, entry, ctimeout, waited, blocked, availAtCall, lastOpen,
                   lastWait, sawBusy, waitsSinceOpen, cret, cIsServer, ioVars, recvVars, lifeVars, sockVars, otherVars>>

\* Environment: the server creates another instance of the pipe.
ServerCreateInstance ==
    /\ total < MaxInstances
    /\ total' = total + 1
    /\ UNCHANGED <<busy, defaultWait, callVars, ioVars, recvVars, lifeVars, sockVars, otherVars>>

\* Environment: an occupied instance is disconnected and becomes free again.
InstanceFreed ==
    /\ busy > 0
    /\ busy' = busy - 1
    /\ UNCHANGED <<total, defaultWait, callVars, ioVars, recvVars, lifeVars, sockVars, otherVars>>

\* Environment: a free instance is lost to this client, opened by another
\* client or closed by the server.
InstanceTaken ==
    /\ avail > 0
    /\ \/ busy' = busy + 1 /\ total' = total
       \/ total' = total - 1 /\ busy' = busy
    /\ UNCHANGED <<defaultWait, callVars, ioVars, recvVars, lifeVars, sockVars, otherVars>>

ConnectStep == ConnectOpen \/ ConnectWaitOk \/ ConnectWaitFail \/ ConnectWaitTick

ConnNext ==
    \/ ConnectCall
    \/ ConnectOpen
    \/ ConnectWaitOk
    \/ ConnectWaitFail
    \/ ConnectWaitTick
    \/ ConnectReturn
    \/ ServerCreateInstance
    \/ InstanceFreed
    \/ InstanceTaken

-----------------------------------------------------------------------------
(* FileHandle I/O and the stream operations built on it *)

IoErrCodes == {"ERROR_ACCESS_DENIED", "ERROR_INVALID_HANDLE"}

\* ReadFile on the pipe handle with a buffer of len bytes: what the OS can
\* answer. With the peer gone the call fails once the buffered data is drained;
\* ERROR_NO_DATA is the answer of an empty pipe in no-wait mode.
ReadFileOutcomes(len) ==
    CASE peer = "open" ->
            {OsOk(n) : n \in 0..len}
            \cup {OsFailN(ERROR_MORE_DATA, len), OsFail("ERROR_NO_DATA")}
            \cup {OsFail(c) : c \in IoErrCodes}
      [] peer = "closed" ->
            {OsOk(n) : n \in 1..len} \cup {OsFail("ERROR_BROKEN_PIPE")}
      [] peer = "disconnected" -> {OsFail(ERROR_PIPE_NOT_CONNECTED)}

\* WriteFile with a buffer of len bytes. A pipe in no-wait mode whose buffer
\* is short of room accepts fewer bytes than it was given.
WriteFileOutcomes(len) ==
    CASE peer = "open" ->
            {OsOk(n) : n \in 0..len} \cup {OsFail(c) : c \in IoErrCodes}
      [] peer = "closed" -> {OsFail("ERROR_NO_DATA"), OsFail("ERROR_BROKEN_PIPE")}
      [] peer = "disconnected" -> {OsFail(ERROR_PIPE_NOT_CONNECTED)}

\* FlushFileBuffers.
FlushOutcomes ==
    CASE peer = "open" -> {OsOk(0)} \cup {OsFail(c) : c \in IoErrCodes}
      [] peer = "closed" -> {OsFail("ERROR_BROKEN_PIPE")}
      [] peer = "disconnected" -> {OsFail(ERROR_PIPE_NOT_CONNECTED)}

is_eof_like_KindOnly(e) == e.kind = "BrokenPipe"

is_eof_like(e) == e.kind = "BrokenPipe" \/ e.code = ERROR_PIPE_NOT_CONNECTED

FileHandle_read(os) ==
    LET r == ok_or_ret_errno(os)
    IN IF IsErr(r) /\ is_eof_like(r.err) THEN Ok(0) ELSE r

FileHandle_write_Remap(os) ==
    LET r == ok_or_ret_errno(os)
    IN IF IsErr(r) /\ is_eof_like(r.err) THEN Ok(0) ELSE r

FileHandle_write(os) == ok_or_ret_errno(os)

FileHandle_flush_hndl_NoRemap(os) == ok_or_ret_errno(os)

FileHandle_flush_hndl(os) ==
    LET r == ok_or_ret_errno(os)
    IN IF IsErr(r) /\ is_eof_like(r.err) THEN Ok(0) ELSE r

FileHandle_flush(os) == FileHandle_flush_hndl(os)

\* PipeStream<Bytes, _>: Read::read and read_to_uninit.
PipeStream_read(os) == FileHandle_read(os)

\* PipeStream<_, Bytes>: Write::write.
PipeStream_write(os) == FileHandle_write(os)

\* PipeStream<_, Messages>::send.
PipeStream_send(os) == FileHandle_write(os)

\* PipeStream::flush, for every stream with a send mode.
PipeStream_flush(os) == FileHandle_flush(os)

\* PipeOps::write, the write of the older stream types.
PipeOps_write(os) == ok_or_ret_errno(os)

PartialMsgWriteError == custom_error("Other", "PartialMsgWriteError")

\* impl Write for MsgWriterPipeStream
MsgWriterPipeStream_write(os, len) ==
    LET r == PipeOps_write(os)
    IN IF IsErr(r) THEN r
       ELSE IF r.val = len THEN Ok(len) ELSE Err(PartialMsgWriteError)

\* impl Write for DuplexMsgPipeStream
DuplexMsgPipeStream_write(os, len) ==
    LET r == PipeOps_write(os)
    IN IF IsErr(r) THEN r
       ELSE IF r.val = len THEN Ok(len) ELSE Err(PartialMsgWriteError)

\* The mode tags of a direction: pipe_mode::None, Bytes, Messages
PipeModeTags == {"None", "Bytes", "Messages"}

StreamType(name, rm, sm) == [name |-> name, read |-> rm, write |-> sm]

NoType == StreamType("none", "None", "None")

\* PipeStream<Rm, Sm> for every pair of tags
PipeStreamTypes == {StreamType("PipeStream", rm, sm) : rm \in PipeModeTags, sm \in PipeModeTags}

\* The stream types create_stream_type! generates, with their read_mode and
\* write_mode
MacroStreamTypes ==
    {StreamType("ByteReaderPipeStream", "Bytes", "None"),
     StreamType("ByteWriterPipeStream", "None", "Bytes"),
     StreamType("DuplexBytePipeStream", "Bytes", "Bytes"),
     StreamType("MsgReaderPipeStream", "Messages", "None"),
     StreamType("MsgWriterPipeStream", "None", "Messages"),
     StreamType("DuplexMsgPipeStream", "Messages", "Messages")}

\* The operations the impl blocks give PipeStream<Rm, Sm>: the type has a
\* method only if an impl whose bounds its tags meet defines it.
PipeStream_ops(rm, sm) ==
    (IF rm = "Messages" THEN {"recv", "try_recv"} ELSE {})
    \cup (IF sm = "Messages" THEN {"send"} ELSE {})
    \cup (IF rm = "Bytes" THEN {"read"} ELSE {})
    \cup (IF sm = "Bytes" THEN {"write"} ELSE {})
    \cup (IF sm # "None" THEN {"flush"} ELSE {})

\* The PipeStream types that have operation op
PipeStreamsWith(op) == {ty \in PipeStreamTypes : op \in PipeStream_ops(ty.read, ty.write)}

\* The macro-generated types that implement Read
MacroReaders ==
    {ty \in MacroStreamTypes :
        ty.name \in {"ByteReaderPipeStream", "DuplexBytePipeStream",
                     "MsgReaderPipeStream", "DuplexMsgPipeStream"}}

MacroType(name) == CHOOSE ty \in MacroStreamTypes : ty.name = name

\* PipeOps::read_bytes, the read of the older stream types
PipeOps_read_bytes(os) == FileHandle_read(os)

IoInit ==
    /\ peer \in {"open", "closed", "disconnected"}
    /\ ioOp = "none"
    /\ ioLen = 0
    /\ ioOs = OsOk(0)
    /\ ioRes = None
    /\ ioTy = NoType

IoDone(ty, op, len, os, res) ==
    /\ ioTy' = ty
    /\ ioOp' = op
    /\ ioLen' = len
    /\ ioOs' = os
    /\ ioRes' = res
    /\ UNCHANGED <<peer, connVars, recvVars, lifeVars, sockVars, otherVars>>

IoRead ==
    \E ty \in PipeStreamsWith("read"), len \in 0..MaxBuf : \E os \in ReadFileOutcomes(len) :
        IoDone(ty, "read", len, os, PipeStream_read(os))

IoWrite ==
    \E ty \in PipeStreamsWith("write"), len \in 0..MaxBuf : \E os \in WriteFileOutcomes(len) :
        IoDone(ty, "write", len, os, PipeStream_write(os))

IoSend ==
    \E ty \in PipeStreamsWith("send"), len \in 0..MaxBuf : \E os \in WriteFileOutcomes(len) :
        IoDone(ty, "send", len, os, PipeStream_send(os))

IoFlush ==
    \E ty \in PipeStreamsWith("flush"), os \in FlushOutcomes :
        IoDone(ty, "flush", 0, os, PipeStream_flush(os))

IoMsgWriterWrite ==
    \E len \in 0..MaxBuf : \E os \in WriteFileOutcomes(len) :
        IoDone(MacroType("MsgWriterPipeStream"), "MsgWriterPipeStream::write", len, os,
               MsgWriterPipeStream_write(os, len))

IoDuplexMsgWrite ==
    \E len \in 0..MaxBuf : \E os \in WriteFileOutcomes(len) :
        IoDone(MacroType("DuplexMsgPipeStream"), "DuplexMsgPipeStream::write", len, os,
               DuplexMsgPipeStream_write(os, len))

\* impl Read for the macro-generated types: self.ops().read_bytes(buf)
IoMacroRead ==
    \E ty \in MacroReaders, len \in 0..MaxBuf : \E os \in ReadFileOutcomes(len) :
        IoDone(ty, "Read::read", len, os, PipeOps_read_bytes(os))

\* Environment: the other end closes its handle.
PeerCloses ==
    /\ peer = "open"
    /\ peer' = "closed"
    /\ UNCHANGED <<ioOp, ioLen, ioOs, ioRes, ioTy, connVars, recvVars, lifeVars, sockVars, otherVars>>

\* Environment: the server end disconnects the instance.
PeerDisconnects ==
    /\ peer \in {"open", "closed"}
    /\ peer' = "disconnected"
    /\ UNCHANGED <<ioOp, ioLen, ioOs, ioRes, ioTy, connVars, recvVars, lifeVars, sockVars, otherVars>>

IoNext ==
    \/ IoRead
    \/ IoWrite
    \/ IoSend
    \/ IoFlush
    \/ IoMsgWriterWrite
    \/ IoDuplexMsgWrite
    \/ IoMacroRead
    \/ PeerCloses
    \/ PeerDisconnects

-----------------------------------------------------------------------------
(* Message-mode receive: RawPipeStream::try_recv_msg and recv_msg *)

Byte == {1, 2}

\* The messages a peer sends: any length up to MaxMsgLen, the empty message
\* included (WriteFile of zero bytes queues a zero-length message).
Msgs == {<<>>} \cup UNION {{[i \in 1..n |-> b] : b \in Byte} : n \in 1..MaxMsgLen}

Receivers == {1, 2}

Min(a, b) == IF a <= b THEN a ELSE b

Filler(n) == [i \in 1..n |-> 0]

NoVec == <<>>

\* TryRecvResult { size, fit } / RecvResult::Fit(size) / RecvResult::Alloc(vec)
RecvOk(kind, size, fit, vec) ==
    [tag |-> "ok", kind |-> kind, size |-> size, fit |-> fit, vec |-> vec, err |-> NoErr]

RecvErr(e) ==
    [tag |-> "err", kind |-> "none", size |-> 0, fit |-> FALSE, vec |-> NoVec, err |-> e]

RecvNone ==
    [tag |-> "none", kind |-> "none", size |-> 0, fit |-> FALSE, vec |-> NoVec, err |-> NoErr]

\* PeekNamedPipe asking for the bytes left in the current message.
PeekOutcome ==
    IF pipeQ # <<>> THEN OsOk(Len(Head(pipeQ)))
    ELSE IF rpeer = "open" THEN OsOk(0)
    ELSE OsFail("ERROR_BROKEN_PIPE")

\* peek_msg_len
peek_msg_len(os) == ok_or_ret_errno(os)

\* ReadFile on a blocking message-mode pipe, buffer of len bytes: it waits
\* while nothing is queued and the peer is there.
ReadFileReady == pipeQ # <<>> \/ rpeer = "closed"

\* A message that fits is transferred whole and leaves the queue; of a longer
\* one len bytes are transferred, the rest stays queued, and the call fails
\* with ERROR_MORE_DATA.
ReadFileOs(len) ==
    IF pipeQ = <<>> THEN OsFail("ERROR_BROKEN_PIPE")
    ELSE IF Len(Head(pipeQ)) <= len THEN OsOk(Len(Head(pipeQ)))
    ELSE OsFailN(ERROR_MORE_DATA, len)

ReadFileData(len) ==
    IF pipeQ = <<>> THEN <<>>
    ELSE SubSeq(Head(pipeQ), 1, Min(len, Len(Head(pipeQ))))

ReadFileQueue(len) ==
    IF pipeQ = <<>> THEN pipeQ
    ELSE IF Len(Head(pipeQ)) <= len THEN Tail(pipeQ)
    ELSE <<SubSeq(Head(pipeQ), len + 1, Len(Head(pipeQ)))>> \o Tail(pipeQ)

\* buf with its first Len(data) bytes overwritten by data.
Overwrite(buf, data) ==
    [i \in 1..Len(buf) |-> IF i <= Len(data) THEN data[i] ELSE buf[i]]

\* try_recv_msg after peek_msg_len(..)?: size and fit are set; a message that
\* fits is read into buf[0..size], one that does not leaves the loop.
try_recv_on_peek_FitIfEqual(buflen, pk) ==
    IF IsErr(pk) THEN [pc |-> "ret", size |-> 0, fit |-> FALSE, ret |-> RecvErr(pk.err)]
    ELSE IF buflen = pk.val
         THEN [pc |-> "read", size |-> pk.val, fit |-> TRUE, ret |-> RecvNone]
         ELSE [pc |-> "ret", size |-> pk.val, fit |-> FALSE,
               ret |-> RecvOk("try", pk.val, FALSE, NoVec)]

try_recv_on_peek(buflen, pk) ==
    IF IsErr(pk) THEN [pc |-> "ret", size |-> 0, fit |-> FALSE, ret |-> RecvErr(pk.err)]
    ELSE IF buflen >= pk.val
         THEN [pc |-> "read", size |-> pk.val, fit |-> TRUE, ret |-> RecvNone]
         ELSE [pc |-> "ret", size |-> pk.val, fit |-> FALSE,
               ret |-> RecvOk("try", pk.val, FALSE, NoVec)]

\* try_recv_msg, the match on self.handle.read(&mut buf[0..size]) and the loop
\* condition that follows it (size == 0 goes round again).
try_recv_on_read_AlwaysLoops(size, rd) ==
    IF IsErr(rd) /\ rd.err.code # ERROR_MORE_DATA
    THEN [pc |-> "ret", size |-> size, ret |-> RecvErr(rd.err)]
    ELSE [pc |-> "peek", size |-> size, ret |-> RecvNone]

try_recv_on_read_NoLoop(size, rd) ==
    IF IsErr(rd) /\ rd.err.code = ERROR_MORE_DATA
    THEN [pc |-> "ret", size |-> size, ret |-> RecvOk("try", size, TRUE, NoVec)]
    ELSE IF IsErr(rd) THEN [pc |-> "ret", size |-> size, ret |-> RecvErr(rd.err)]
    ELSE [pc |-> "ret", size |-> rd.val, ret |-> RecvOk("try", rd.val, TRUE, NoVec)]

try_recv_on_read(size, rd) ==
    IF IsErr(rd) /\ rd.err.code = ERROR_MORE_DATA
    THEN IF size = 0 THEN [pc |-> "peek", size |-> size, ret |-> RecvNone]
         ELSE [pc |-> "ret", size |-> size, ret |-> RecvOk("try", size, TRUE, NoVec)]
    ELSE IF IsErr(rd) THEN [pc |-> "ret", size |-> size, ret |-> RecvErr(rd.err)]
    ELSE IF rd.val = 0 THEN [pc |-> "peek", size |-> 0, ret |-> RecvNone]
    ELSE [pc |-> "ret", size |-> rd.val, ret |-> RecvOk("try", rd.val, TRUE, NoVec)]

\* recv_msg after self.try_recv_msg(buf)?
recv_msg_on_try_IgnoresFit(tr) ==
    IF tr.tag = "err" THEN [pc |-> "done", ret |-> tr]
    ELSE [pc |-> "done", ret |-> RecvOk("Fit", tr.size, TRUE, NoVec)]

recv_msg_on_try(tr) ==
    IF tr.tag = "err" THEN [pc |-> "done", ret |-> tr]
    ELSE IF tr.fit THEN [pc |-> "done", ret |-> RecvOk("Fit", tr.size, TRUE, NoVec)]
    ELSE [pc |-> "alloc", ret |-> RecvNone]

\* Vec::with_capacity(size): at least size bytes.
VecCapacities(size) == {size, size + 1}

\* vec_as_uninit: the whole capacity of the Vec as the read buffer.
vec_as_uninit_UsesLen(cap) == 0

vec_as_uninit(cap) == cap

\* recv_msg after size = self.handle.read(vec_as_uninit(&mut buf))?; set_len(size)
recv_msg_on_read(rd, data) ==
    IF IsErr(rd) THEN RecvErr(rd.err)
    ELSE RecvOk("Alloc", rd.val, FALSE, SubSeq(data, 1, rd.val))

RecvIdleState ==
    [pc |-> "idle", op |-> "none", buf |-> <<>>, size |-> 0, fit |-> FALSE,
     try |-> RecvNone, ret |-> RecvNone,
     hadHead |-> FALSE, callHead |-> <<>>, atEnd |-> FALSE, taken |-> <<>>]

\* Receiver r calls try_recv (try_recv_to_uninit) or recv (recv_to_uninit) with
\* a buffer of buflen bytes.
RecvCall(r) ==
    /\ rcv[r].pc = "idle"
    /\ \E op \in {"try_recv", "recv"}, buflen \in 0..MaxBuf :
          rcv' = [rcv EXCEPT ![r] =
                    [pc |-> "peek", op |-> op, buf |-> Filler(buflen), size |-> 0,
                     fit |-> FALSE, try |-> RecvNone, ret |-> RecvNone,
                     hadHead |-> (pipeQ # <<>>),
                     callHead |-> IF pipeQ # <<>> THEN Head(pipeQ) ELSE <<>>,
                     atEnd |-> (pipeQ = <<>> /\ rpeer = "closed"),
                     taken |-> <<>>]]
    /\ UNCHANGED <<pipeQ, rpeer, sentLog, recvLog, connVars, ioVars, lifeVars, sockVars, otherVars>>

\* What the reads of a call have removed from the queue so far (whole
\* messages or fragments, in order); only the first two entries are kept.
Took(taken, os, data) ==
    IF pipeQ # <<>> /\ (os.success \/ data # <<>>) /\ Len(taken) < 2
    THEN Append(taken, data) ELSE taken

\* try_recv_msg has produced its result tr: it is the call's result, or recv_msg
\* goes on from it.
AfterTry(r, st, tr) ==
    IF st.op = "try_recv" THEN [st EXCEPT !.pc = "done", !.try = tr, !.ret = tr]
    ELSE LET nx == recv_msg_on_try(tr)
         IN [st EXCEPT !.pc = nx.pc, !.try = tr, !.ret = nx.ret]

\* size = peek_msg_len(self.handle.0)?; fit = buf.len() >= size
TryRecvPeek(r) ==
    /\ rcv[r].pc = "peek"
    /\ LET st == rcv[r]
           nx == try_recv_on_peek(Len(st.buf), peek_msg_len(PeekOutcome))
           st1 == [st EXCEPT !.size = nx.size, !.fit = nx.fit]
       IN rcv' = [rcv EXCEPT ![r] =
                    IF nx.pc = "ret" THEN AfterTry(r, st1, nx.ret)
                    ELSE [st1 EXCEPT !.pc = nx.pc]]
    /\ UNCHANGED <<pipeQ, rpeer, sentLog, recvLog, connVars, ioVars, lifeVars, sockVars, otherVars>>

\* self.handle.read(&mut buf[0..size]) and the match on its result
TryRecvRead(r) ==
    /\ rcv[r].pc = "read"
    /\ ReadFileReady
    /\ LET st == rcv[r]
           os == ReadFileOs(st.size)
           data == ReadFileData(st.size)
           nx == try_recv_on_read(st.size, FileHandle_read(os))
           st1 == [st EXCEPT !.size = nx.size,
                             !.buf = Overwrite(st.buf, data),
                             !.taken = Took(st.taken, os, data)]
       IN /\ rcv' = [rcv EXCEPT ![r] =
                       IF nx.pc = "ret" THEN AfterTry(r, st1, nx.ret)
                       ELSE [st1 EXCEPT !.pc = nx.pc]]
          /\ pipeQ' = ReadFileQueue(st.size)
    /\ UNCHANGED <<rpeer, sentLog, recvLog, connVars, ioVars, lifeVars, sockVars, otherVars>>

\* recv_msg, the branch for a message that did not fit: a Vec of capacity at
\* least size is allocated and read into.
RecvAllocRead(r) ==
    /\ rcv[r].pc = "alloc"
    /\ ReadFileReady
    /\ \E cap \in VecCapacities(rcv[r].size) :
          LET st == rcv[r]
              len == vec_as_uninit(cap)
              os == ReadFileOs(len)
              data == ReadFileData(len)
          IN /\ rcv' = [rcv EXCEPT ![r] =
                          [st EXCEPT !.pc = "done",
                                     !.ret = recv_msg_on_read(FileHandle_read(os), data),
                                     !.taken = Took(st.taken, os, data)]]
             /\ pipeQ' = ReadFileQueue(len)
    /\ UNCHANGED <<rpeer, sentLog, recvLog, connVars, ioVars, lifeVars, sockVars, otherVars>>

\* The message a finished call hands to its caller: the allocated buffer, or
\* the first size bytes of the caller's buffer when the message fitted.
ReturnedMsgs(st) ==
    IF st.ret.tag # "ok" THEN <<>>
    ELSE IF st.ret.kind = "Alloc" THEN <<st.ret.vec>>
    ELSE IF st.ret.fit THEN <<SubSeq(st.buf, 1, Min(st.ret.size, Len(st.buf)))>>
    ELSE <<>>

\* The caller has its result.
RecvReturn(r) ==
    /\ rcv[r].pc = "done"
    /\ rcv' = [rcv EXCEPT ![r] = RecvIdleState]
    /\ recvLog' = recvLog \o ReturnedMsgs(rcv[r])
    /\ UNCHANGED <<pipeQ, rpeer, sentLog, connVars, ioVars, lifeVars, sockVars, otherVars>>

\* Environment: the peer sends a message.
PeerSend ==
    /\ rpeer = "open"
    /\ Len(pipeQ) < MaxQueue
    /\ Len(sentLog) < MaxSends
    /\ \E m \in Msgs :
          /\ pipeQ' = Append(pipeQ, m)
          /\ sentLog' = Append(sentLog, m)
    /\ UNCHANGED <<rpeer, rcv, recvLog, connVars, ioVars, lifeVars, sockVars, otherVars>>

\* Environment: the peer closes its end.
RecvPeerCloses ==
    /\ rpeer = "open"
    /\ rpeer' = "closed"
    /\ UNCHANGED <<pipeQ, rcv, sentLog, recvLog, connVars, ioVars, lifeVars, sockVars, otherVars>>

\* One receiver on the stream.
RecvNext ==
    \/ RecvCall(1)
    \/ TryRecvPeek(1)
    \/ TryRecvRead(1)
    \/ RecvAllocRead(1)
    \/ RecvReturn(1)
    \/ PeerSend
    \/ RecvPeerCloses

RecvCallAny == \E r \in Receivers : RecvCall(r)

TryRecvPeekAny == \E r \in Receivers : TryRecvPeek(r)

TryRecvReadAny == \E r \in Receivers : TryRecvRead(r)

RecvAllocReadAny == \E r \in Receivers : RecvAllocRead(r)

RecvReturnAny == \E r \in Receivers : RecvReturn(r)

\* The peer sends one of a few messages: the environment of the
\* specifications with two receivers and with fairness.
ConcPeerSend ==
    /\ Len(sentLog) < ConcSends
    /\ PeerSend

\* Two receivers on the stream, through shared references to it; each OS
\* call of either is a step of its own.
ConcRecvNext ==
    \/ RecvCallAny
    \/ TryRecvPeekAny
    \/ TryRecvReadAny
    \/ RecvAllocReadAny
    \/ RecvReturnAny
    \/ ConcPeerSend
    \/ RecvPeerCloses

\* One receiver, fewer messages.
LiveRecvNext ==
    \/ RecvCall(1)
    \/ TryRecvPeek(1)
    \/ TryRecvRead(1)
    \/ RecvAllocRead(1)
    \/ RecvReturn(1)
    \/ ConcPeerSend
    \/ RecvPeerCloses

-----------------------------------------------------------------------------
(* Life cycle of a named-pipe stream and of its handle: split, drop,         *)
(* disconnect_without_flushing, into_raw_handle                              *)

\* The stream types: those generated by create_stream_type_base! (stream.rs),
\* which hold an Instance(PipeOps), and PipeStream<Rm, Sm> (stream/impls),
\* which holds a RawPipeStream.
StreamKinds == {"create_stream_type", "PipeStream"}

Halves == {"RecvHalf", "SendHalf"}

FlushFileBuffers == "FlushFileBuffers"

DisconnectNamedPipe == "DisconnectNamedPipe"

CloseHandle == "CloseHandle"

\* What DisconnectNamedPipe answers: it disconnects the server end of an
\* instance; given the client end of a pipe it fails.
DisconnectOutcomes(is_server) ==
    IF is_server THEN {OsOk(0)} \cup {OsFail(c) : c \in IoErrCodes}
    ELSE {OsFail("ERROR_INVALID_FUNCTION")}

\* impl Drop for FileHandle
FileHandle_drop == <<CloseHandle>>

\* RawPipeStream::disconnect
RawPipeStream_disconnect(os) == ok_or_ret_errno(os)

RawPipeStream_drop_CloseOnly(is_server, os) ==
    [issued |-> FileHandle_drop, panicked |-> FALSE, res |-> None]

\* impl Drop for RawPipeStream, then the drop of its handle field. A failed
\* disconnect panics in expect(); the unwinding still drops the field.
RawPipeStream_drop(is_server, os) ==
    [issued |-> (IF is_server THEN <<DisconnectNamedPipe>> ELSE <<>>) \o FileHandle_drop,
     panicked |-> is_server /\ IsErr(RawPipeStream_disconnect(os)),
     res |-> None]

\* IntoRawHandle for RawPipeStream: the stream is wrapped in ManuallyDrop and
\* the handle read out of it; nothing is called on the handle.
RawPipeStream_into_raw_handle == [issued |-> <<>>, panicked |-> FALSE]

\* Instance::is_split: "sync pipes don't implement splitting yet"
Instance_is_split == FALSE

\* PipeOps::disconnect
PipeOps_disconnect(os) == ok_or_ret_errno(os)

\* PipeOps::server_drop_disconnect: flush, then disconnect
PipeOps_server_drop_disconnect == <<FlushFileBuffers, DisconnectNamedPipe>>

\* Drop of an Instance(PipeOps): the handle is released.
Instance_drop == <<CloseHandle>>

\* impl Drop for $ty, then the drop of its instance field
Stream_drop(is_server) ==
    (IF ~Instance_is_split /\ is_server THEN PipeOps_server_drop_disconnect ELSE <<>>)
        \o Instance_drop

\* What the drop of a stream of the macro-generated types hands on: nothing,
\* `let _ =` discards the io::Result of server_drop_disconnect, which is the
\* answer os of its flush and disconnect.
Stream_drop_result(is_server, os) ==
    [issued |-> Stream_drop(is_server), panicked |-> FALSE, res |-> None]

\* disconnect_without_flushing(self). A return of Err drops self as any value
\* going out of scope is dropped; after a successful disconnect self is put
\* in ManuallyDrop and only its instance is dropped.
disconnect_without_flushing_NoManuallyDrop(is_server, os) ==
    IF Instance_is_split
    THEN [res |-> Err(custom_error("Other", "split")), issued |-> Stream_drop(is_server)]
    ELSE IF IsErr(PipeOps_disconnect(os))
    THEN [res |-> PipeOps_disconnect(os),
          issued |-> <<DisconnectNamedPipe>> \o Stream_drop(is_server)]
    ELSE [res |-> Ok(0),
          issued |-> <<DisconnectNamedPipe>> \o Instance_drop \o Stream_drop(is_server)]

disconnect_without_flushing_ForgetsOnError(is_server, os) ==
    IF Instance_is_split
    THEN [res |-> Err(custom_error("Other", "split")), issued |-> <<>>]
    ELSE IF IsErr(PipeOps_disconnect(os))
    THEN [res |-> PipeOps_disconnect(os), issued |-> <<DisconnectNamedPipe>>]
    ELSE [res |-> Ok(0), issued |-> <<DisconnectNamedPipe>> \o Instance_drop]

disconnect_without_flushing(is_server, os) ==
    IF Instance_is_split
    THEN [res |-> Err(custom_error("Other", "split")), issued |-> Stream_drop(is_server)]
    ELSE IF IsErr(PipeOps_disconnect(os))
    THEN [res |-> PipeOps_disconnect(os),
          issued |-> <<DisconnectNamedPipe>> \o Stream_drop(is_server)]
    ELSE [res |-> Ok(0), issued |-> <<DisconnectNamedPipe>> \o Instance_drop]

\* IntoRawHandle for $ty: assert!(self.is_client()), the handle is read through
\* a reference and self goes out of scope at the end of the function (or in
\* the unwinding of the failed assertion).
Stream_into_raw_handle(is_server) ==
    [issued |-> Stream_drop(is_server), panicked |-> is_server]

\* Rm::MODE / READ_MODE of a stream type: Option<PipeMode>
ReadModes == {"None", "Bytes", "Messages"}

\* What the query of a handle's pipe information answers.
SysQueryOutcomes == {OsOk(0), OsFail("ERROR_INVALID_HANDLE")}

\* is_server_from_sys / PipeOps::is_server: the role, or the OS error
is_server_from_sys(os) == ok_or_ret_errno(os)

\* has_msg_boundaries_from_sys / PipeOps::does_pipe_have_message_boundaries
has_msg_boundaries_from_sys(os) == ok_or_ret_errno(os)

\* FromRawHandleError: (FromRawHandleErrorKind, io::Error)
FromRawHandleError(kind, e) == [code |-> e.code, kind |-> e.kind, payload |-> kind]

\* RawPipeStream::try_from_raw_handle: the role is asked first; on failure
\* no RawPipeStream exists yet and the handle stays with the caller.
RawPipeStream_try_from_raw_handle(srv) ==
    IF IsErr(is_server_from_sys(srv))
    THEN Err(FromRawHandleError("IsServerCheckFailed", is_server_from_sys(srv).err))
    ELSE Ok(0)

\* PipeStream::from_raw_handle. An Err returned after try_from_raw_handle
\* drops the RawPipeStream it had built.
PipeStream_from_raw_handle_NoBoundaryCheck(rm, is_server, msg_bnd, srv, bnd, disc) ==
    IF IsErr(RawPipeStream_try_from_raw_handle(srv))
    THEN [res |-> RawPipeStream_try_from_raw_handle(srv), built |-> FALSE,
          issued |-> <<>>, panicked |-> FALSE]
    ELSE [res |-> Ok(0), built |-> TRUE, issued |-> <<>>, panicked |-> FALSE]

PipeStream_from_raw_handle_KeepsHandleOnError(rm, is_server, msg_bnd, srv, bnd, disc) ==
    IF IsErr(RawPipeStream_try_from_raw_handle(srv))
    THEN [res |-> RawPipeStream_try_from_raw_handle(srv), built |-> FALSE,
          issued |-> <<>>, panicked |-> FALSE]
    ELSE IF rm = "Messages" /\ IsErr(has_msg_boundaries_from_sys(bnd))
    THEN [res |-> Err(FromRawHandleError("MessageBoundariesCheckFailed",
                                         has_msg_boundaries_from_sys(bnd).err)),
          built |-> FALSE, issued |-> <<>>, panicked |-> FALSE]
    ELSE IF rm = "Messages" /\ ~msg_bnd
    THEN [res |-> Err(FromRawHandleError("NoMessageBoundaries",
                                         custom_error("InvalidInput", "none"))),
          built |-> FALSE, issued |-> <<>>, panicked |-> FALSE]
    ELSE [res |-> Ok(0), built |-> TRUE, issued |-> <<>>, panicked |-> FALSE]

PipeStream_from_raw_handle(rm, is_server, msg_bnd, srv, bnd, disc) ==
    IF IsErr(RawPipeStream_try_from_raw_handle(srv))
    THEN [res |-> RawPipeStream_try_from_raw_handle(srv), built |-> FALSE,
          issued |-> <<>>, panicked |-> FALSE]
    ELSE IF rm = "Messages" /\ IsErr(has_msg_boundaries_from_sys(bnd))
    THEN [res |-> Err(FromRawHandleError("MessageBoundariesCheckFailed",
                                         has_msg_boundaries_from_sys(bnd).err)),
          built |-> FALSE,
          issued |-> RawPipeStream_drop(is_server, disc).issued,
          panicked |-> RawPipeStream_drop(is_server, disc).panicked]
    ELSE IF rm = "Messages" /\ ~msg_bnd
    THEN [res |-> Err(FromRawHandleError("NoMessageBoundaries",
                                         custom_error("InvalidInput", "none"))),
          built |-> FALSE,
          issued |-> RawPipeStream_drop(is_server, disc).issued,
          panicked |-> RawPipeStream_drop(is_server, disc).panicked]
    ELSE [res |-> Ok(0), built |-> TRUE, issued |-> <<>>, panicked |-> FALSE]

\* FromRawHandle for $ty: the checks end in expect() and assert!(); the
\* unwinding of a panic drops the PipeOps built from the handle.
Stream_from_raw_handle(rm, is_server, msg_bnd, srv, bnd) ==
    IF \/ IsErr(is_server_from_sys(srv))
       \/ rm = "Messages" /\ IsErr(has_msg_boundaries_from_sys(bnd))
       \/ rm = "Messages" /\ ~msg_bnd
    THEN [res |-> None, built |-> FALSE, issued |-> Instance_drop, panicked |-> TRUE]
    ELSE [res |-> Ok(0), built |-> TRUE, issued |-> <<>>, panicked |-> FALSE]

\* PipeStream::split: Arc::new(self.raw) and one Arc::clone, a half for each.
PipeStream_split_NoClone ==
    [strong |-> 1, half |-> [h \in Halves |-> "live"]]

PipeStream_split ==
    [strong |-> 2, half |-> [h \in Halves |-> "live"]]

\* Drop of a half, that is of its Arc<RawPipeStream>: one atomic decrement;
\* the owner that takes the count to zero drops the RawPipeStream.
Arc_drop_AlwaysLast(count) == [strong |-> count - 1, last |-> TRUE]

Arc_drop(count) == [strong |-> count - 1, last |-> count = 1]

Range(seq) == {seq[i] : i \in DOMAIN seq}

NoLop ==
    [op |-> "none", res |-> None, issued |-> <<>>, panicked |-> FALSE,
     wasOpen |-> TRUE, is_split |-> FALSE, oserr |-> None]

NoIo == [by |-> "none", op |-> "none", valid |-> TRUE, alone |-> FALSE]

\* The directions an owner has: a stream both, a half its own.
OwnerOps(by) ==
    IF by = "RecvHalf" THEN {"read"}
    ELSE IF by = "SendHalf" THEN {"write", "flush"}
    ELSE {"read", "write", "flush"}

\* Where a stream comes from: connect / connect_to_remote, a listener, or a
\* raw handle.
Origins == {"connect", "listener", "handle"}

\* The role a stream is built with: connect builds a client; a listener hands
\* out its own, server, end.
RoleOf(origin) == IF origin = "connect" THEN RawPipeStream_connect_is_server ELSE TRUE

\* PipeStream::is_server
PipeStream_is_server(st) == st.is_server

\* PipeStream::is_client
PipeStream_is_client(st) == ~st.is_server

\* A connected stream of either kind and either role, as a listener or a
\* connect call hands it out (a Messages read mode is only given to a pipe
\* that has message boundaries), or a handle the caller created elsewhere.
LifeInit ==
    /\ strm \in {st \in [kind : StreamKinds, is_server : BOOLEAN, own : {"stream", "raw"},
                          read_mode : ReadModes, msg_bnd : BOOLEAN, origin : Origins] :
                    /\ (st.own = "stream" /\ st.read_mode = "Messages") => st.msg_bnd
                    /\ st.own = "stream" =>
                          /\ st.origin \in {"connect", "listener"}
                          /\ st.is_server = RoleOf(st.origin)
                    /\ st.own = "raw" =>
                          /\ st.kind = "PipeStream"
                          /\ st.read_mode = "None"
                          /\ st.origin = "handle"}
    /\ strong = 0
    /\ half = [h \in Halves |-> "none"]
    /\ hopen = TRUE
    /\ calls = <<>>
    /\ lastIo = NoIo
    /\ lop = NoLop

\* The native calls an operation issues reach the handle, in order; oserr is
\* the error one of them answered, if one failed.
IssueWith(op, r, oserr) ==
    /\ calls' = calls \o r.issued
    /\ hopen' = (hopen /\ CloseHandle \notin Range(r.issued))
    /\ lop' = [op |-> op, res |-> r.res, issued |-> r.issued, panicked |-> r.panicked,
               wasOpen |-> hopen, is_split |-> (strm.own = "halves"), oserr |-> oserr]

Issue(op, r) == IssueWith(op, r, None)

\* The error of the disconnect (after the flush, for the macro-generated
\* types) that the drop of a server-role stream calls.
DropOsError(is_server, os) ==
    IF is_server /\ IsErr(ok_or_ret_errno(os)) THEN ok_or_ret_errno(os) ELSE None

\* Who can use the handle now: the stream, or a half that has not been dropped.
LiveOwners ==
    IF strm.own = "stream" THEN {"stream"}
    ELSE IF strm.own = "halves" THEN {h \in Halves : half[h] = "live"}
    ELSE {}

\* An owner reads, writes or flushes through the handle; the
\* OS serves it as long as the handle is open and the pipe not disconnected.
LifeIo ==
    /\ \E by \in LiveOwners : \E op \in OwnerOps(by) :
          lastIo' = [by |-> by, op |-> op,
                     valid |-> hopen /\ DisconnectNamedPipe \notin Range(calls),
                     alone |-> by \in Halves /\ \E o \in Halves : half[o] = "dropped"]
    /\ UNCHANGED <<strm, strong, half, hopen, calls, lop, connVars, ioVars, recvVars, sockVars, otherVars>>

\* PipeStream::split
StreamSplit ==
    /\ strm.kind = "PipeStream"
    /\ strm.own = "stream"
    /\ strm' = [strm EXCEPT !.own = "halves"]
    /\ strong' = PipeStream_split.strong
    /\ half' = PipeStream_split.half
    /\ lop' = [NoLop EXCEPT !.op = "split", !.wasOpen = hopen]
    /\ UNCHANGED <<hopen, calls, lastIo, connVars, ioVars, recvVars, sockVars, otherVars>>

\* A half is dropped (by any thread): the decrement of the shared count.
HalfDrop(h) ==
    /\ strm.own = "halves"
    /\ half[h] = "live"
    /\ LET r == Arc_drop(strong)
       IN /\ strong' = r.strong
          /\ half' = [half EXCEPT ![h] = IF r.last THEN "last" ELSE "dropped"]
    /\ UNCHANGED <<strm, hopen, calls, lastIo, lop, connVars, ioVars, recvVars, sockVars, otherVars>>

\* The half that took the count to zero drops the RawPipeStream.
HalfDropRaw(h) ==
    /\ half[h] = "last"
    /\ \E os \in DisconnectOutcomes(strm.is_server) :
          LET d == RawPipeStream_drop(strm.is_server, os)
          IN IssueWith("drop_half",
                       [res |-> None, issued |-> d.issued, panicked |-> d.panicked],
                       DropOsError(strm.is_server, os))
    /\ half' = [half EXCEPT ![h] = "dropped"]
    /\ UNCHANGED <<strm, strong, lastIo, connVars, ioVars, recvVars, sockVars, otherVars>>

HalfDropAny == \E h \in Halves : HalfDrop(h)

HalfDropRawAny == \E h \in Halves : HalfDropRaw(h)

\* An unsplit stream goes out of scope.
StreamDrop ==
    /\ strm.own = "stream"
    /\ \E os \in DisconnectOutcomes(strm.is_server) :
          LET d == IF strm.kind = "PipeStream"
                   THEN RawPipeStream_drop(strm.is_server, os)
                   ELSE Stream_drop_result(strm.is_server, os)
          IN IssueWith("drop", [res |-> d.res, issued |-> d.issued, panicked |-> d.panicked],
                       DropOsError(strm.is_server, os))
    /\ strm' = [strm EXCEPT !.own = "nobody"]
    /\ UNCHANGED <<strong, half, lastIo, connVars, ioVars, recvVars, sockVars, otherVars>>

\* disconnect_without_flushing(self) on a stream of create_stream_type_base!
DisconnectWithoutFlushing ==
    /\ strm.kind = "create_stream_type"
    /\ strm.own = "stream"
    /\ \E os \in DisconnectOutcomes(strm.is_server) :
          LET d == disconnect_without_flushing(strm.is_server, os)
          IN IssueWith("disconnect_without_flushing",
                       [res |-> d.res, issued |-> d.issued, panicked |-> FALSE],
                       IF IsErr(PipeOps_disconnect(os)) THEN PipeOps_disconnect(os) ELSE None)
    /\ strm' = [strm EXCEPT !.own = "nobody"]
    /\ UNCHANGED <<strong, half, lastIo, connVars, ioVars, recvVars, sockVars, otherVars>>

\* into_raw_handle(self)
IntoRawHandle ==
    /\ strm.own = "stream"
    /\ LET d == IF strm.kind = "PipeStream" THEN RawPipeStream_into_raw_handle
                ELSE Stream_into_raw_handle(strm.is_server)
       IN Issue("into_raw_handle", [res |-> None, issued |-> d.issued, panicked |-> d.panicked])
    /\ strm' = [strm EXCEPT !.own = "raw", !.origin = "handle"]
    /\ UNCHANGED <<strong, half, lastIo, connVars, ioVars, recvVars, sockVars, otherVars>>

\* from_raw_handle(handle) on a handle the caller owns and that is open (the
\* safety contract); the caller picks the stream type.
FromRawHandle ==
    /\ strm.own = "raw"
    /\ hopen
    /\ \E kind \in StreamKinds, rm \in ReadModes, srv \in SysQueryOutcomes,
          bnd \in SysQueryOutcomes, disc \in DisconnectOutcomes(strm.is_server) :
          LET r == IF kind = "PipeStream"
                   THEN PipeStream_from_raw_handle(rm, strm.is_server, strm.msg_bnd,
                                                   srv, bnd, disc)
                   ELSE Stream_from_raw_handle(rm, strm.is_server, strm.msg_bnd, srv, bnd)
          IN /\ Issue("from_raw_handle",
                      [res |-> r.res, issued |-> r.issued, panicked |-> r.panicked])
             /\ strm' = IF r.built
                        THEN [strm EXCEPT !.own = "stream", !.kind = kind, !.read_mode = rm,
                                          !.origin = "handle"]
                        ELSE [strm EXCEPT !.kind = kind, !.read_mode = rm]
    /\ UNCHANGED <<strong, half, lastIo, connVars, ioVars, recvVars, sockVars, otherVars>>

\* The caller closes a raw handle it owns.
RawClose ==
    /\ strm.own = "raw"
    /\ hopen
    /\ Issue("raw_close", [res |-> None, issued |-> <<CloseHandle>>, panicked |-> FALSE])
    /\ UNCHANGED <<strm, strong, half, lastIo, connVars, ioVars, recvVars, sockVars, otherVars>>

LifeNext ==
    \/ FromRawHandle
    \/ RawClose
    \/ LifeIo
    \/ StreamSplit
    \/ HalfDropAny
    \/ HalfDropRawAny
    \/ StreamDrop
    \/ DisconnectWithoutFlushing
    \/ IntoRawHandle


-----------------------------------------------------------------------------
(* Unix-domain socket streams under Tokio: into_split, reunite, shutdown of  *)
(* one direction, peer credentials                                           *)

UdStreams == {1, 2}

\* The descriptor of stream s.
Fd(s) == s + 2

Fds == {Fd(s) : s \in UdStreams}

NoHalf == [st |-> "none", token |-> 0, fd |-> 0]

\* What the kernel answers for the peer of a connected socket.
PeerPid(fd) == 100 + fd

\* c_wrappers::get_peer_ucred
c_wrappers_get_peer_ucred(fd) == [pid |-> PeerPid(fd)]

\* c_wrappers::shutdown: shutdown(2) of one or both directions of the socket
c_wrappers_shutdown(sock, how) ==
    [sock EXCEPT !.rd = IF how \in {"Read", "Both"} THEN FALSE ELSE @,
                 !.wr = IF how \in {"Write", "Both"} THEN FALSE ELSE @]

\* UdStream::into_split: two owned halves over the one stream; token is the
\* identity of what they share.
UdStream_into_split(s, fd) ==
    [r |-> [st |-> "live", token |-> s, fd |-> fd],
     w |-> [st |-> "live", token |-> s, fd |-> fd]]

\* LocalSocketStream::into_split: the halves of the inner stream, wrapped
LocalSocketStream_into_split(s, fd) == UdStream_into_split(s, fd)

\* UdStream::reunite: the stream again if the two halves are of one split,
\* else ReuniteError carrying both halves.
UdStream_reunite(r, w) ==
    IF r.token = w.token
    THEN [tag |-> "ok", fd |-> r.fd, r |-> NoHalf, w |-> NoHalf]
    ELSE [tag |-> "err", fd |-> 0, r |-> r, w |-> w]

\* OwnedReadHalf::reunite_with
OwnedReadHalf_reunite_with_Unchecked(r, w) ==
    [tag |-> "ok", fd |-> r.fd, r |-> NoHalf, w |-> NoHalf]

OwnedReadHalf_reunite_with_DropsOnError(r, w) ==
    IF r.token = w.token
    THEN [tag |-> "ok", fd |-> r.fd, r |-> NoHalf, w |-> NoHalf]
    ELSE [tag |-> "err", fd |-> 0, r |-> [r EXCEPT !.st = "dropped"],
          w |-> [w EXCEPT !.st = "dropped"]]

OwnedReadHalf_reunite_with(r, w) == UdStream_reunite(r, w)

\* OwnedReadHalf::as_stream_raw_fd: the descriptor of the whole stream
OwnedReadHalf_as_stream_raw_fd(h) == h.fd

\* OwnedReadHalf::get_peer_credentials
OwnedReadHalf_get_peer_credentials(h) ==
    c_wrappers_get_peer_ucred(OwnedReadHalf_as_stream_raw_fd(h))

\* OwnedReadHalf::shutdown / BorrowedReadHalf::shutdown: the direction handed
\* to c_wrappers::shutdown
OwnedReadHalf_shutdown_Both(h) ==
    [fd |-> OwnedReadHalf_as_stream_raw_fd(h), how |-> "Both"]

OwnedReadHalf_shutdown(h) ==
    [fd |-> OwnedReadHalf_as_stream_raw_fd(h), how |-> "Read"]

SockFresh == [open |-> TRUE, rd |-> TRUE, wr |-> TRUE]

NoUlast ==
    [op |-> "none", a |-> 0, b |-> 0, tag |-> "none", pid |-> 0,
     r |-> NoHalf, w |-> NoHalf, uhalf0 |-> <<>>, usock0 |-> <<>>]

\* Two connected streams of the same type.
SockInit ==
    /\ ud = [s \in UdStreams |-> [own |-> "stream", fd |-> Fd(s)]]
    /\ uhalf = [s \in UdStreams |-> [r |-> NoHalf, w |-> NoHalf]]
    /\ usock = [fd \in Fds |-> SockFresh]
    /\ ulast = NoUlast

Did(op, a, b, tag, pid, r, w) ==
    ulast' = [op |-> op, a |-> a, b |-> b, tag |-> tag, pid |-> pid,
              r |-> r, w |-> w, uhalf0 |-> uhalf, usock0 |-> usock]

\* into_split(self)
UdIntoSplit ==
    /\ \E s \in UdStreams :
          /\ ud[s].own = "stream"
          /\ ud' = [ud EXCEPT ![s].own = "halves"]
          /\ uhalf' = [uhalf EXCEPT ![s] = LocalSocketStream_into_split(s, ud[s].fd)]
          /\ Did("into_split", s, s, "ok", 0, NoHalf, NoHalf)
    /\ UNCHANGED <<usock, connVars, ioVars, recvVars, lifeVars, otherVars>>

\* read_half.reunite_with(write_half), the read half of stream a and the
\* write half of stream b
UdReunite ==
    /\ \E a \in UdStreams, b \in UdStreams :
          /\ uhalf[a].r.st = "live"
          /\ uhalf[b].w.st = "live"
          /\ LET res == OwnedReadHalf_reunite_with(uhalf[a].r, uhalf[b].w)
                 h1 == [uhalf EXCEPT ![a].r = res.r]
             IN /\ uhalf' = [h1 EXCEPT ![b].w = res.w]
                /\ ud' = IF res.tag = "ok"
                         THEN [ud EXCEPT ![a] = [own |-> "stream", fd |-> res.fd]]
                         ELSE ud
                /\ Did("reunite", a, b, res.tag, 0, res.r, res.w)
    /\ UNCHANGED <<usock, connVars, ioVars, recvVars, lifeVars, otherVars>>

\* read_half.shutdown()
UdShutdownRead ==
    /\ \E s \in UdStreams :
          /\ uhalf[s].r.st = "live"
          /\ LET c == OwnedReadHalf_shutdown(uhalf[s].r)
             IN usock' = [usock EXCEPT ![c.fd] = c_wrappers_shutdown(@, c.how)]
          /\ Did("shutdown", s, s, "ok", 0, NoHalf, NoHalf)
    /\ UNCHANGED <<ud, uhalf, connVars, ioVars, recvVars, lifeVars, otherVars>>

\* A write through the write half: it works while the socket is open and its
\* write direction has not been shut down.
UdWrite ==
    /\ \E s \in UdStreams :
          /\ uhalf[s].w.st = "live"
          /\ Did("write", s, s,
                 IF usock[uhalf[s].w.fd].open /\ usock[uhalf[s].w.fd].wr THEN "ok" ELSE "err",
                 0, NoHalf, NoHalf)
    /\ UNCHANGED <<ud, uhalf, usock, connVars, ioVars, recvVars, lifeVars, otherVars>>

\* get_peer_credentials on a stream, or on the read half of a split one
UdPeerCredentials ==
    /\ \E s \in UdStreams :
          /\ ud[s].own = "stream" \/ uhalf[s].r.st = "live"
          /\ Did("get_peer_credentials", s, s, "ok",
                 IF ud[s].own = "stream" THEN c_wrappers_get_peer_ucred(ud[s].fd).pid
                 ELSE OwnedReadHalf_get_peer_credentials(uhalf[s].r).pid,
                 NoHalf, NoHalf)
    /\ UNCHANGED <<ud, uhalf, usock, connVars, ioVars, recvVars, lifeVars, otherVars>>

\* A half is dropped; the descriptor is closed when both halves are gone.
UdDropHalf ==
    /\ \E s \in UdStreams, dir \in {"r", "w"} :
          /\ uhalf[s][dir].st = "live"
          /\ LET other == IF dir = "r" THEN "w" ELSE "r"
                 last == uhalf[s][other].st = "dropped"
                 fd == uhalf[s][dir].fd
             IN /\ uhalf' = [uhalf EXCEPT ![s][dir].st = "dropped"]
                /\ usock' = [usock EXCEPT ![fd].open = IF last THEN FALSE ELSE @]
                /\ ud' = [ud EXCEPT ![s].own = IF last THEN "nobody" ELSE @]
          /\ Did("drop_half", s, s, "ok", 0, NoHalf, NoHalf)
    /\ UNCHANGED <<connVars, ioVars, recvVars, lifeVars, otherVars>>

SockNext ==
    \/ UdIntoSplit
    \/ UdReunite
    \/ UdShutdownRead
    \/ UdWrite
    \/ UdPeerCredentials
    \/ UdDropHalf


-----------------------------------------------------------------------------
(* Ancillary data codec: control-message records, their construction and    *)
(* their parsing (cmsg/ancillary/dispatcher.rs)                              *)

\* The level of the socket ancillary namespace.
LEVEL == "SOL_SOCKET"

FileDescriptors_TYPE == "SCM_RIGHTS"

Credentials_TYPE == "SCM_CREDENTIALS"

Levels == {LEVEL, "IPPROTO_IP"}

Types == {FileDescriptors_TYPE, Credentials_TYPE, "SCM_TIMESTAMP"}

\* Values a byte takes.
ByteRange == 256

\* size_of::<c_int>(): one descriptor, and one field of the credentials.
SizeOfInt == 4

\* size_of::<ucred>(): pid, uid, gid
SizeOfUcred == 3 * SizeOfInt

\* An integer in native (little-endian) byte order, n bytes.
RECURSIVE EncodeInt(_, _)
EncodeInt(v, n) ==
    IF n = 0 THEN <<>> ELSE <<v % ByteRange>> \o EncodeInt(v \div ByteRange, n - 1)

RECURSIVE DecodeInt(_)
DecodeInt(bytes) ==
    IF bytes = <<>> THEN 0 ELSE bytes[1] + ByteRange * DecodeInt(Tail(bytes))

RECURSIVE EncodeInts(_)
EncodeInts(ints) ==
    IF ints = <<>> THEN <<>> ELSE EncodeInt(Head(ints), SizeOfInt) \o EncodeInts(Tail(ints))

\* The whole integers a payload holds; trailing bytes short of one integer
\* are not part of any.
DecodeInts(bytes) ==
    [i \in 1..(Len(bytes) \div SizeOfInt) |->
        DecodeInt(SubSeq(bytes, (i - 1) * SizeOfInt + 1, i * SizeOfInt))]

\* Cmsg: one raw record of a control buffer
Cmsg(level, type, data) == [cmsg_level |-> level, cmsg_type |-> type, data |-> data]

NoCmsg == Cmsg("none", "none", <<>>)

\* enum Ancillary
Ancillary_FileDescriptors(fds) ==
    [variant |-> "FileDescriptors", fds |-> fds, pid |-> 0, uid |-> 0, gid |-> 0]

Ancillary_Credentials(pid, uid, gid) ==
    [variant |-> "Credentials", fds |-> <<>>, pid |-> pid, uid |-> uid, gid |-> gid]

NoMsg == [variant |-> "none", fds |-> <<>>, pid |-> 0, uid |-> 0, gid |-> 0]

\* Option<c_int> of the error kinds
Some(x) == <<x>>

NoneOpt == <<>>

NoSizeMismatch == [expected |-> 0, got |-> 0]

\* ParseErrorKind
WrongLevel(expected, got) ==
    [name |-> "WrongLevel", expected |-> expected, got |-> got,
     variant |-> "none", sizes |-> NoSizeMismatch]

WrongType(expected, got) ==
    [name |-> "WrongType", expected |-> expected, got |-> got,
     variant |-> "none", sizes |-> NoSizeMismatch]

\* ParseErrorKind::MalformedPayload(e); variant is what wraps the inner error
MalformedPayloadKind(variant, sizes) ==
    [name |-> "MalformedPayload", expected |-> NoneOpt, got |-> "none",
     variant |-> variant, sizes |-> sizes]

NoKind ==
    [name |-> "none", expected |-> NoneOpt, got |-> "none",
     variant |-> "none", sizes |-> NoSizeMismatch]

\* ParseResult; called records which payload parser the dispatcher invoked.
ParseOk(m) == [tag |-> "ok", msg |-> m, cmsg |-> NoCmsg, kind |-> NoKind, called |-> "none"]

ParseErr(cmsg, kind) ==
    [tag |-> "err", msg |-> NoMsg, cmsg |-> cmsg, kind |-> kind, called |-> "none"]

\* ParseError::map_payload_err: a malformed-payload error is wrapped, the
\* other kinds and the record are kept.
map_payload_err(r, variant) ==
    IF r.tag = "err" /\ r.kind.name = "MalformedPayload"
    THEN [r EXCEPT !.kind.variant = variant]
    ELSE r

\* FileDescriptors::try_parse: its MalformedPayloadError is Infallible, every
\* payload parses; the descriptors are the whole integers of the payload.
FileDescriptors_try_parse(cmsg) == ParseOk(Ancillary_FileDescriptors(DecodeInts(cmsg.data)))

\* Credentials::try_parse: the payload is one ucred, or SizeMismatch
Credentials_try_parse(cmsg) ==
    IF Len(cmsg.data) # SizeOfUcred
    THEN ParseErr(cmsg, MalformedPayloadKind("SizeMismatch",
                            [expected |-> SizeOfUcred, got |-> Len(cmsg.data)]))
    ELSE ParseOk(Ancillary_Credentials(
                    DecodeInt(SubSeq(cmsg.data, 1, SizeOfInt)),
                    DecodeInt(SubSeq(cmsg.data, SizeOfInt + 1, 2 * SizeOfInt)),
                    DecodeInt(SubSeq(cmsg.data, 2 * SizeOfInt + 1, 3 * SizeOfInt))))

\* Ancillary::parse_credentials
Ancillary_parse_credentials_SwapsSizes(cmsg) ==
    LET r == map_payload_err(Credentials_try_parse(cmsg), "Credentials")
    IN IF r.tag = "err"
       THEN [r EXCEPT !.kind.sizes = [expected |-> r.kind.sizes.got,
                                      got |-> r.kind.sizes.expected]]
       ELSE r

Ancillary_parse_credentials(cmsg) ==
    map_payload_err(Credentials_try_parse(cmsg), "Credentials")

\* Ancillary::parse_fd
Ancillary_parse_fd_ViaCredentials(cmsg) ==
    map_payload_err(Credentials_try_parse(cmsg), "Credentials")

Ancillary_parse_fd(cmsg) ==
    map_payload_err(FileDescriptors_try_parse(cmsg), "Infallible")

Invoked(r, parser) == [r EXCEPT !.called = parser]

\* impl FromCmsg for Ancillary: try_parse
Ancillary_try_parse_NoLevelCheck(cmsg) ==
    CASE cmsg.cmsg_type = FileDescriptors_TYPE ->
            Invoked(Ancillary_parse_fd(cmsg), "parse_fd")
      [] cmsg.cmsg_type = Credentials_TYPE ->
            Invoked(Ancillary_parse_credentials(cmsg), "parse_credentials")
      [] OTHER -> ParseErr(cmsg, WrongType(NoneOpt, cmsg.cmsg_type))

Ancillary_try_parse_UnknownAsFd(cmsg) ==
    IF cmsg.cmsg_level # LEVEL
    THEN ParseErr(cmsg, WrongLevel(Some(LEVEL), cmsg.cmsg_level))
    ELSE CASE cmsg.cmsg_type = Credentials_TYPE ->
                 Invoked(Ancillary_parse_credentials(cmsg), "parse_credentials")
           [] OTHER -> Invoked(Ancillary_parse_fd(cmsg), "parse_fd")

Ancillary_try_parse_LosesCmsg(cmsg) ==
    IF cmsg.cmsg_level # LEVEL
    THEN ParseErr(NoCmsg, WrongLevel(Some(LEVEL), cmsg.cmsg_level))
    ELSE CASE cmsg.cmsg_type = FileDescriptors_TYPE ->
                 Invoked(Ancillary_parse_fd(cmsg), "parse_fd")
           [] cmsg.cmsg_type = Credentials_TYPE ->
                 Invoked(Ancillary_parse_credentials(cmsg), "parse_credentials")
           [] OTHER -> ParseErr(NoCmsg, WrongType(NoneOpt, cmsg.cmsg_type))

Ancillary_try_parse(cmsg) ==
    IF cmsg.cmsg_level # LEVEL
    THEN ParseErr(cmsg, WrongLevel(Some(LEVEL), cmsg.cmsg_level))
    ELSE CASE cmsg.cmsg_type = FileDescriptors_TYPE ->
                 Invoked(Ancillary_parse_fd(cmsg), "parse_fd")
           [] cmsg.cmsg_type = Credentials_TYPE ->
                 Invoked(Ancillary_parse_credentials(cmsg), "parse_credentials")
           [] OTHER -> ParseErr(cmsg, WrongType(NoneOpt, cmsg.cmsg_type))

\* construct: the record a message is sent as
construct(m) ==
    IF m.variant = "FileDescriptors"
    THEN Cmsg(LEVEL, FileDescriptors_TYPE, EncodeInts(m.fds))
    ELSE Cmsg(LEVEL, Credentials_TYPE,
              EncodeInt(m.pid, SizeOfInt) \o EncodeInt(m.uid, SizeOfInt)
                  \o EncodeInt(m.gid, SizeOfInt))

\* The messages a peer constructs in the model: descriptors and identities
\* that take one, two and three bytes of their integers.
FdValues == {3, 258}

FdLists == UNION {[1..n -> FdValues] : n \in 0..MaxFds}

CredValues ==
    {Ancillary_Credentials(1, 0, 0), Ancillary_Credentials(70000, 1000, 1000)}

Messages == {Ancillary_FileDescriptors(fds) : fds \in FdLists} \cup CredValues

\* Records that come from elsewhere: any level, any type, payloads of the
\* lengths around one integer and one ucred.
PayloadLens == {0, 1, SizeOfInt, SizeOfInt + 1, SizeOfUcred, SizeOfUcred + 1}

RawRecords ==
    {Cmsg(l, t, [i \in 1..n |-> i]) : l \in Levels, t \in Types, n \in PayloadLens}

CodecInit ==
    /\ cbuf = <<>>
    /\ corig = <<>>
    /\ cphase = "recv"
    /\ cres = <<>>
    /\ cprev = <<>>

\* The peer sends a message it built with construct; the record arrives in
\* the control buffer.
CodecSend ==
    /\ cphase = "recv"
    /\ Len(cbuf) < MaxRecords
    /\ \E m \in Messages :
          /\ cbuf' = Append(cbuf, construct(m))
          /\ corig' = Append(corig, m)
    /\ UNCHANGED <<cphase, cres, cprev, connVars, ioVars, recvVars, lifeVars, sockVars, duplexVars, pollVars>>

\* A record built by other means arrives.
CodecRaw ==
    /\ cphase = "recv"
    /\ Len(cbuf) < MaxRecords
    /\ \E c \in RawRecords :
          /\ cbuf' = Append(cbuf, c)
          /\ corig' = Append(corig, NoMsg)
    /\ UNCHANGED <<cphase, cres, cprev, connVars, ioVars, recvVars, lifeVars, sockVars, duplexVars, pollVars>>

\* The receive call returns; the buffer is handed to the parser.
CodecReceived ==
    /\ cphase = "recv"
    /\ cphase' = "parse"
    /\ UNCHANGED <<cbuf, corig, cres, cprev, connVars, ioVars, recvVars, lifeVars, sockVars, duplexVars, pollVars>>

\* The next record of the buffer is parsed; an error is a result as any other
\* and the pass goes on after it.
ParseNext ==
    /\ cphase = "parse"
    /\ Len(cres) < Len(cbuf)
    /\ cres' = Append(cres, Ancillary_try_parse(cbuf[Len(cres) + 1]))
    /\ UNCHANGED <<cbuf, corig, cphase, cprev, connVars, ioVars, recvVars, lifeVars, sockVars, duplexVars, pollVars>>

\* The caller starts over from the first record.
ParseRestart ==
    /\ cphase = "parse"
    /\ cres # <<>>
    /\ cprev' = IF Len(cres) = Len(cbuf) THEN cres ELSE cprev
    /\ cres' = <<>>
    /\ UNCHANGED <<cbuf, corig, cphase, connVars, ioVars, recvVars, lifeVars, sockVars, duplexVars, pollVars>>

CodecNext ==
    \/ CodecSend
    \/ CodecRaw
    \/ CodecReceived
    \/ ParseNext
    \/ ParseRestart


-----------------------------------------------------------------------------
(* Concurrent exchange of one line over split duplex byte streams            *)
(* (tests/tokio_named_pipe/bytes.rs)                                         *)

\* The connections the server accepts: for _ in 0..num_clients
Conns == {1, 2}

Endpoints == {"server", "client"}

Other(e) == IF e = "server" THEN "client" ELSE "server"

NL == "\n"

\* A line: its text, then the newline. The text carries who sends it.
Line(ch) == [i \in 1..MaxLine |-> ch] \o <<NL>>

SERVER_MSG == Line("s")

CLIENT_MSG == Line("c")

\* The message an endpoint writes, and the one its assert_eq! expects.
MsgOf(e) == IF e = "server" THEN SERVER_MSG ELSE CLIENT_MSG

Expected(e) == MsgOf(Other(e))

\* A byte on the wire remembers the connection it was written to.
Wire(c, text) == [i \in DOMAIN text |-> [ch |-> text[i], conn |-> c]]

Text(bytes) == [i \in DOMAIN bytes |-> bytes[i].ch]

EndpointIdle == [pc |-> "none", sent |-> 0, line |-> <<>>, eq |-> FALSE]

\* write_all has written the whole message
SendDone(st, e) == st.sent = Len(MsgOf(e))

\* read_line has seen the newline
RecvDone(st) == st.line # <<>> /\ st.line[Len(st.line)].ch = NL

\* try_join!(recv, send): the two futures are polled side by side; each one
\* is polled until it completes, whatever the state of the other.
try_join_polls_SendThenRecv(task, st, e) ==
    IF task = "send" THEN ~SendDone(st, e) ELSE SendDone(st, e) /\ ~RecvDone(st)

try_join_polls(task, st, e) ==
    IF task = "send" THEN ~SendDone(st, e) ELSE ~RecvDone(st)

DuplexInit ==
    /\ dconn = [c \in Conns |-> "none"]
    /\ dep = [c \in Conns |-> [e \in Endpoints |-> EndpointIdle]]
    /\ dpipe = [c \in Conns |-> [e \in Endpoints |-> <<>>]]

\* listener.accept() on the server and connect() on the client give the two
\* ends of one pipe instance.
DuplexConnect(c) ==
    /\ dconn[c] = "none"
    /\ dconn' = [dconn EXCEPT ![c] = "open"]
    /\ UNCHANGED <<dep, dpipe, connVars, ioVars, recvVars, lifeVars, sockVars, codecVars, pollVars>>

\* handle_conn / client: split(), then the two futures are built.
DuplexSplit(c, e) ==
    /\ dconn[c] = "open"
    /\ dep[c][e].pc = "none"
    /\ dep' = [dep EXCEPT ![c][e].pc = "joined"]
    /\ UNCHANGED <<dconn, dpipe, connVars, ioVars, recvVars, lifeVars, sockVars, codecVars, pollVars>>

\* A poll of write_all through the send half: the pipe takes as many of the
\* remaining bytes as it has room for, at least one; with no room the future
\* stays pending. dpipe[c][e] holds the bytes on their way to endpoint e.
DuplexSend(c, e) ==
    /\ dep[c][e].pc = "joined"
    /\ try_join_polls("send", dep[c][e], e)
    /\ \E k \in 1..(PipeCap - Len(dpipe[c][Other(e)])) :
          /\ dep[c][e].sent + k <= Len(MsgOf(e))
          /\ dpipe' = [dpipe EXCEPT ![c][Other(e)] =
                          @ \o Wire(c, SubSeq(MsgOf(e), dep[c][e].sent + 1,
                                              dep[c][e].sent + k))]
          /\ dep' = [dep EXCEPT ![c][e].sent = @ + k]
    /\ UNCHANGED <<dconn, connVars, ioVars, recvVars, lifeVars, sockVars, codecVars, pollVars>>

\* A poll of read_line through the receive half: the bytes that have arrived
\* are taken; with none the future stays pending.
DuplexRecv(c, e) ==
    /\ dep[c][e].pc = "joined"
    /\ try_join_polls("recv", dep[c][e], e)
    /\ dpipe[c][e] # <<>>
    /\ dep' = [dep EXCEPT ![c][e].line = @ \o dpipe[c][e]]
    /\ dpipe' = [dpipe EXCEPT ![c][e] = <<>>]
    /\ UNCHANGED <<dconn, connVars, ioVars, recvVars, lifeVars, sockVars, codecVars, pollVars>>

\* try_join! returns once both futures have; then assert_eq!(buffer, ...).
DuplexJoined(c, e) ==
    /\ dep[c][e].pc = "joined"
    /\ SendDone(dep[c][e], e)
    /\ RecvDone(dep[c][e])
    /\ dep' = [dep EXCEPT ![c][e].pc = "done",
                          ![c][e].eq = (Text(dep[c][e].line) = Expected(e))]
    /\ UNCHANGED <<dconn, dpipe, connVars, ioVars, recvVars, lifeVars, sockVars, codecVars, pollVars>>

DuplexConnectAny == \E c \in Conns : DuplexConnect(c)

DuplexSplitAny == \E c \in Conns, e \in Endpoints : DuplexSplit(c, e)

DuplexSendAny == \E c \in Conns, e \in Endpoints : DuplexSend(c, e)

DuplexRecvAny == \E c \in Conns, e \in Endpoints : DuplexRecv(c, e)

DuplexJoinedAny == \E c \in Conns, e \in Endpoints : DuplexJoined(c, e)

DuplexNext ==
    \/ DuplexConnectAny
    \/ DuplexSplitAny
    \/ DuplexSendAny
    \/ DuplexRecvAny
    \/ DuplexJoinedAny

-----------------------------------------------------------------------------
(* Asynchronous read through an owned read half (read_half.rs) and through   *)
(* the LocalSocketStream facade                                              *)

PollPending == [tag |-> "Pending", res |-> None]

PollReady(r) == [tag |-> "Ready", res |-> r]

\* The Tokio stream's poll_read on a ReadBuf of room n: with bytes queued it
\* moves up to n of them into the buffer; at end of stream it moves none and
\* is ready; a socket error is ready with the error; with nothing queued and
\* the peer still there it registers the waker and is pending.
\* Answers [poll, filled, rest].
tokio_poll_read(queue, n, closed, os) ==
    IF ~os.success
    THEN [poll |-> PollReady(Err(last_os_error(os.code))), filled |-> <<>>, rest |-> queue]
    ELSE IF queue = <<>> /\ ~closed /\ n > 0
    THEN [poll |-> PollPending, filled |-> <<>>, rest |-> queue]
    ELSE [poll |-> PollReady(Ok(0)),
          filled |-> SubSeq(queue, 1, Min(n, Len(queue))),
          rest |-> SubSeq(queue, Min(n, Len(queue)) + 1, Len(queue))]

\* impl AsyncRead for OwnedReadHalf: a fresh TokioReadBuf over the caller's
\* buffer, the inner poll, and the length of what was filled as the count.
OwnedReadHalf_poll_read_ReportsCapacity(queue, n, closed, os) ==
    LET t == tokio_poll_read(queue, n, closed, os)
    IN IF t.poll.tag = "Ready" /\ IsOk(t.poll.res)
       THEN [poll |-> PollReady(Ok(n)), filled |-> t.filled, rest |-> t.rest]
       ELSE t

OwnedReadHalf_poll_read_EofOnError(queue, n, closed, os) ==
    LET t == tokio_poll_read(queue, n, closed, os)
    IN IF t.poll.tag = "Ready"
       THEN [poll |-> PollReady(Ok(Len(t.filled))), filled |-> t.filled, rest |-> t.rest]
       ELSE t

OwnedReadHalf_poll_read(queue, n, closed, os) ==
    LET t == tokio_poll_read(queue, n, closed, os)
    IN IF t.poll.tag = "Ready" /\ IsOk(t.poll.res)
       THEN [poll |-> PollReady(Ok(Len(t.filled))), filled |-> t.filled, rest |-> t.rest]
       ELSE t

\* impl AsyncRead for LocalSocketStream: forwards to the inner stream
LocalSocketStream_poll_read(queue, n, closed, os) ==
    OwnedReadHalf_poll_read(queue, n, closed, os)

WritePolls == {"poll_write", "poll_flush", "poll_close"}

\* The write side of the platform stream the facade wraps: poll_write of n
\* bytes with room bytes free in the send buffer writes what fits, or is
\* pending when nothing does; poll_flush has nothing to flush; poll_close
\* shuts the sending direction down. A socket error is ready with the error.
UdStream_poll(op, room, n, os) ==
    IF op = "poll_flush" THEN PollReady(Ok(0))
    ELSE IF ~os.success THEN PollReady(Err(last_os_error(os.code)))
    ELSE IF op = "poll_close" THEN PollReady(Ok(0))
    ELSE IF room = 0 /\ n > 0 THEN PollPending
    ELSE PollReady(Ok(Min(n, room)))

\* impl AsyncWrite for the Unix LocalSocketStream: self.pinproj().poll_*(..)
UnixLocalSocketStream_poll(op, room, n, os) == UdStream_poll(op, room, n, os)

\* impl AsyncWrite for LocalSocketStream: self.pinproj().poll_*(..)
LocalSocketStream_poll_PendingAsZero(op, room, n, os) ==
    IF UnixLocalSocketStream_poll(op, room, n, os).tag = "Pending"
    THEN PollReady(Ok(0))
    ELSE UnixLocalSocketStream_poll(op, room, n, os)

LocalSocketStream_poll(op, room, n, os) == UnixLocalSocketStream_poll(op, room, n, os)

PollSockOutcomes == {OsOk(0), OsFail("ECONNRESET")}

NoWrite == [op |-> "none", n |-> 0, poll |-> PollPending, inner |-> PollPending]

NoPoll ==
    [via |-> "none", n |-> 0, poll |-> PollPending, filled |-> <<>>, before |-> <<>>,
     inner |-> PollPending, wr |-> NoWrite]

PollInit ==
    /\ pq = <<>>
    /\ pclosed = FALSE
    /\ pnext = 1
    /\ pgot = <<>>
    /\ pfut = "none"
    /\ plast = NoPoll

\* The peer's bytes arrive: byte number pnext of the stream.
PollPeerSend ==
    /\ ~pclosed
    /\ pnext <= MaxStream
    /\ Len(pq) < MaxQueue
    /\ pq' = Append(pq, pnext)
    /\ pnext' = pnext + 1
    /\ UNCHANGED <<pclosed, pgot, pfut, plast, connVars, ioVars, recvVars, lifeVars, sockVars, codecVars, duplexVars>>

PollPeerCloses ==
    /\ ~pclosed
    /\ pclosed' = TRUE
    /\ UNCHANGED <<pq, pnext, pgot, pfut, plast, connVars, ioVars, recvVars, lifeVars, sockVars, codecVars, duplexVars>>

\* One poll of a read future, through the half or through the facade. What a
\* Ready(Ok(k)) reports is what the caller takes from its buffer: the first k
\* bytes of it.
PollRead ==
    /\ \E via \in {"OwnedReadHalf", "LocalSocketStream"}, n \in 0..MaxBuf,
          os \in PollSockOutcomes :
          LET r == IF via = "OwnedReadHalf"
                   THEN OwnedReadHalf_poll_read(pq, n, pclosed, os)
                   ELSE LocalSocketStream_poll_read(pq, n, pclosed, os)
              k == IF r.poll.tag = "Ready" /\ IsOk(r.poll.res) THEN r.poll.res.val ELSE 0
          IN /\ pq' = r.rest
             /\ pgot' = pgot \o SubSeq(r.filled \o Filler(k), 1, k)
             /\ pfut' = IF r.poll.tag = "Pending" THEN "pending" ELSE "none"
             /\ plast' = [via |-> via, n |-> n, poll |-> r.poll, filled |-> r.filled,
                          before |-> pq,
                          inner |-> tokio_poll_read(pq, n, pclosed, os).poll,
                          wr |-> plast.wr]
    /\ UNCHANGED <<pclosed, pnext, connVars, ioVars, recvVars, lifeVars, sockVars, codecVars, duplexVars>>

\* One poll of a write, flush or close future through the facade; the room in
\* the send buffer is the kernel's and the peer's doing.
PollWrite ==
    /\ \E op \in WritePolls, n \in 0..MaxBuf, room \in 0..MaxBuf, os \in PollSockOutcomes :
          plast' = [plast EXCEPT !.wr = [op |-> op, n |-> n,
                                         poll |-> LocalSocketStream_poll(op, room, n, os),
                                         inner |-> UdStream_poll(op, room, n, os)]]
    /\ UNCHANGED <<pq, pclosed, pnext, pgot, pfut, connVars, ioVars, recvVars, lifeVars, sockVars, codecVars, duplexVars>>

\* The caller drops a read future that is pending (select!, a timeout).
PollCancel ==
    /\ pfut = "pending"
    /\ pfut' = "dropped"
    /\ UNCHANGED <<pq, pclosed, pnext, pgot, plast, connVars, ioVars, recvVars, lifeVars, sockVars, codecVars, duplexVars>>

PollNext ==
    \/ PollPeerSend
    \/ PollPeerCloses
    \/ PollRead
    \/ PollWrite
    \/ PollCancel


-----------------------------------------------------------------------------
(* Specifications: one per subsystem, the others idle *)

IoIdle ==
    /\ peer = "open"
    /\ ioOp = "none"
    /\ ioLen = 0
    /\ ioOs = OsOk(0)
    /\ ioRes = None
    /\ ioTy = NoType

ConnIdle ==
    /\ total = 1
    /\ busy = 1
    /\ defaultWait = 1
    /\ cpc = "idle"
    /\ entry = "connect"
    /\ ctimeout = WaitTimeout_DEFAULT
    /\ waited = 0
    /\ blocked = FALSE
    /\ availAtCall = 0
    /\ lastOpen = None
    /\ lastWait = None
    /\ sawBusy = FALSE
    /\ waitsSinceOpen = 0
    /\ cret = None
    /\ cIsServer = FALSE

RecvIdle ==
    /\ pipeQ = <<>>
    /\ rpeer = "open"
    /\ rcv = [r \in Receivers |-> RecvIdleState]
    /\ sentLog = <<>>
    /\ recvLog = <<>>

LifeIdle ==
    /\ strm = [kind |-> "PipeStream", is_server |-> FALSE, own |-> "stream",
               read_mode |-> "Bytes", msg_bnd |-> FALSE, origin |-> "connect"]
    /\ strong = 0
    /\ half = [h \in Halves |-> "none"]
    /\ hopen = TRUE
    /\ calls = <<>>
    /\ lastIo = NoIo
    /\ lop = NoLop

SockIdle == SockInit

CodecIdle == CodecInit

DuplexIdle == DuplexInit

PollIdle == PollInit

OtherIdle == CodecIdle /\ DuplexIdle /\ PollIdle

SpecConnectInit == ConnInit /\ IoIdle /\ RecvIdle /\ LifeIdle /\ SockIdle /\ OtherIdle

SpecConnect == SpecConnectInit /\ [][ConnNext]_vars

\* The calling thread runs: a step of _connect that can be taken is taken.
LiveConnect == SpecConnectInit /\ [][ConnNext]_vars /\ WF_vars(ConnectStep)

SpecIOInit == IoInit /\ ConnIdle /\ RecvIdle /\ LifeIdle /\ SockIdle /\ OtherIdle

SpecIO == SpecIOInit /\ [][IoNext]_vars

SpecRecvInit == RecvIdle /\ ConnIdle /\ IoIdle /\ LifeIdle /\ SockIdle /\ OtherIdle

SpecRecv == SpecRecvInit /\ [][RecvNext]_vars

SpecRecvConc == SpecRecvInit /\ [][ConcRecvNext]_vars

\* The receiving thread runs: an OS call of receiver 1 that can return does.
LiveRecv ==
    /\ SpecRecvInit
    /\ [][LiveRecvNext]_vars
    /\ WF_vars(TryRecvPeek(1))
    /\ WF_vars(TryRecvRead(1))
    /\ WF_vars(RecvAllocRead(1))

SpecLifeInit == LifeInit /\ ConnIdle /\ IoIdle /\ RecvIdle /\ SockIdle /\ OtherIdle

SpecLife == SpecLifeInit /\ [][LifeNext]_vars

SpecSockInit == SockInit /\ ConnIdle /\ IoIdle /\ RecvIdle /\ LifeIdle /\ OtherIdle

SpecSock == SpecSockInit /\ [][SockNext]_vars

BaseIdle == ConnIdle /\ IoIdle /\ RecvIdle /\ LifeIdle /\ SockIdle

SpecCodecInit == CodecInit /\ BaseIdle /\ DuplexIdle /\ PollIdle

SpecCodec == SpecCodecInit /\ [][CodecNext]_vars

SpecDuplexInit == DuplexInit /\ BaseIdle /\ CodecIdle /\ PollIdle

\* The runtime polls a task that can make progress.
LiveDuplex == SpecDuplexInit /\ [][DuplexNext]_vars /\ WF_vars(DuplexNext)

SpecPollInit == PollInit /\ BaseIdle /\ CodecIdle /\ DuplexIdle

SpecPoll == SpecPollInit /\ [][PollNext]_vars

-----------------------------------------------------------------------------
(* Claims about the connect protocol *)

IsBusyErr(r) == IsErr(r) /\ r.err.code = ERROR_PIPE_BUSY

Connecting == cpc \in {"open", "wait"}

LeavesWait == cpc = "wait" /\ cpc' # "wait"

\* C1 as stated: a busy open attempt is never returned, it is always followed
\* by exactly one wait_for_server call and then by another open attempt; the
\* first non-busy outcome of an open attempt is returned unchanged.
C1_BusyAlwaysRetried ==
    [][ /\ (cpc = "open" /\ cpc' # "open") =>
              IF IsBusyErr(lastOpen')
              THEN cpc' = "wait" /\ cret' = None
              ELSE cpc' = "done" /\ cret' = lastOpen'
        /\ LeavesWait => (cpc' = "open" /\ waitsSinceOpen' = 1) ]_vars

\* C1 amended: a busy open attempt is never returned and is followed by exactly
\* one wait_for_server call; when that call succeeds another open attempt
\* follows, when it fails its error is returned unchanged and there is no
\* further open attempt; the first non-busy outcome of an open attempt is
\* returned unchanged.
C1_BusyRetriedUnlessWaitFails ==
    [][ /\ (cpc = "open" /\ cpc' # "open") =>
              IF IsBusyErr(lastOpen')
              THEN cpc' = "wait" /\ cret' = None
              ELSE cpc' = "done" /\ cret' = lastOpen'
        /\ (cpc = "wait" /\ lastWait' # lastWait) => cpc' # "wait"
        /\ LeavesWait =>
              /\ waitsSinceOpen' = 1
              /\ IF IsOk(lastWait')
                 THEN cpc' = "open" /\ cret' = None
                 ELSE cpc' = "done" /\ cret' = lastWait' /\ ~IsBusyErr(cret') ]_vars

\* C1 witness: a call whose open attempt was busy, waited, retried the open and
\* returned the stream of the retried open.
C1_Witness ==
    cpc = "done" /\ sawBusy /\ IsOk(lastWait) /\ IsOk(cret) /\ cret = lastOpen

\* C2 as stated: a connect attempted while every instance is occupied
\* eventually returns, with success or with a non-busy failure; it does not
\* loop forever.
C2_BusyConnectReturns ==
    (cpc = "open" /\ total > 0 /\ avail = 0) ~> (cpc = "done" /\ ~IsBusyErr(cret))

\* C2 amended: connect never returns a busy error, and a connect in progress
\* eventually returns (success, a non-busy open failure, or the failure of the
\* wait) unless free instances keep being lost to other clients or closed by
\* the server, in which case the retry loop can go on.
C2_ReturnsUnlessInstancesKeepVanishing ==
    /\ [](cpc = "done" => ~IsBusyErr(cret))
    /\ \/ (Connecting ~> cpc = "done")
       \/ []<><<InstanceTaken>>_vars

\* C2 witness: the call began with every instance occupied, was blocked in the
\* wait, an instance became free within the window and connect returned success.
C2_Witness ==
    cpc = "done" /\ availAtCall = 0 /\ sawBusy /\ blocked /\ IsOk(cret)

\* C3 as stated: connect returns only when an open attempt has succeeded or has
\* failed with an error other than all-instances-busy.
C3_ExitOnlyByOpenOutcome ==
    cpc = "done" => (lastOpen # None /\ ~IsBusyErr(lastOpen) /\ cret = lastOpen)

\* C3 amended: connect returns only when an open attempt has succeeded or
\* failed with a non-busy error, or when wait_for_server has failed after a
\* busy open attempt; the loop has no other exit.
C3_ExitByOpenOutcomeOrWaitFailure ==
    cpc = "done" =>
        \/ lastOpen # None /\ ~IsBusyErr(lastOpen) /\ cret = lastOpen
        \/ IsBusyErr(lastOpen) /\ IsErr(lastWait) /\ cret = lastWait

\* C3 witness: the loop was left through the failure of wait_for_server.
C3_Witness ==
    cpc = "done" /\ IsBusyErr(lastOpen) /\ IsErr(cret)
    /\ cret.err.code = "ERROR_SEM_TIMEOUT"

\* C4 as stated: every entry point uses the default WaitTimeout, and a connect
\* called when no server instance is available returns without blocking until
\* an instance appears.
C4_ReturnsImmediately ==
    /\ ctimeout = WaitTimeout_DEFAULT
    /\ (cpc # "idle" /\ availAtCall = 0) => ~blocked

-----------------------------------------------------------------------------
(* Claims about the I/O operations *)

\* The OS call failed with an error that is_eof_like is documented to cover.
OsBrokenPipeLike(os) ==
    /\ ~os.success
    /\ os.code \in {"ERROR_BROKEN_PIPE", "ERROR_NO_DATA", ERROR_PIPE_NOT_CONNECTED}

\* C5: a byte read whose OS read fails with a broken-pipe kind or with
\* ERROR_PIPE_NOT_CONNECTED returns Ok(0); every other OS read error is returned
\* unchanged; a successful OS read returns the OS-reported byte count.
C5_ReadRemapsBrokenPipe ==
    ioOp = "read" =>
        IF ioOs.success THEN ioRes = Ok(ioOs.n)
        ELSE IF decode_error_kind(ioOs.code) = "BrokenPipe"
                \/ ioOs.code = ERROR_PIPE_NOT_CONNECTED
             THEN ioRes = Ok(0)
             ELSE /\ IsErr(ioRes)
                  /\ ioRes.err.code = ioOs.code
                  /\ ioRes.err.payload = "none"

\* C5 witness: a read after the peer closed, answered ERROR_BROKEN_PIPE by the
\* OS, returned 0 bytes.
C5_Witness ==
    /\ ioOp = "read" /\ peer = "closed"
    /\ ioOs = OsFail("ERROR_BROKEN_PIPE") /\ ioRes = Ok(0)

\* C6: flush whose OS flush fails with a broken-pipe-like error returns
\* success; every other OS flush error is returned unchanged.
C6_FlushRemapsBrokenPipe ==
    ioOp = "flush" =>
        IF ioOs.success \/ OsBrokenPipeLike(ioOs) THEN IsOk(ioRes)
        ELSE IsErr(ioRes) /\ ioRes.err = last_os_error(ioOs.code)

\* C6 witness: a flush into a pipe whose peer closed returned success.
C6_Witness ==
    /\ ioOp = "flush" /\ peer = "closed"
    /\ ioOs = OsFail("ERROR_BROKEN_PIPE") /\ IsOk(ioRes)

\* C7: a broken-pipe-like OS error from write or send is always returned as an
\* error, never as a success, whereas the same error on read or flush becomes
\* a success.
C7_WriteNotRemapped ==
    OsBrokenPipeLike(ioOs) =>
        /\ ioOp \in {"write", "send"} =>
              IsErr(ioRes) /\ ioRes.err = last_os_error(ioOs.code)
        /\ ioOp \in {"read", "flush"} => IsOk(ioRes)

\* C7 witness: a send into a pipe being closed returned the OS error.
C7_Witness ==
    /\ ioOp = "send" /\ peer = "closed"
    /\ ioOs = OsFail("ERROR_NO_DATA") /\ IsErr(ioRes)
    /\ ioRes.err.kind = "BrokenPipe"

MsgTypedWrites == {"MsgWriterPipeStream::write", "DuplexMsgPipeStream::write", "send"}

\* C8 as stated: on every message-typed writer, when the OS accepts fewer bytes
\* than supplied the operation returns an error, never Ok(n) with n < len(buf).
C8_PartialMsgWriteRejected ==
    (ioOp \in MsgTypedWrites /\ ioOs.success /\ ioOs.n < ioLen) => IsErr(ioRes)

-----------------------------------------------------------------------------
(* Claims about message-mode receive (one receiver) *)

\* The call of receiver 1 has returned and a message was pending when it began.
ReturnedWithPending(op) ==
    rcv[1].pc = "done" /\ rcv[1].op = op /\ rcv[1].hadHead

\* What C9 says of a try_recv call that began with message m pending.
TryRecvContract(m) ==
    LET st == rcv[1]
        n == Len(m)
    IN IF n <= Len(st.buf)
       THEN /\ st.ret = RecvOk("try", n, TRUE, NoVec)
            /\ SubSeq(st.buf, 1, n) = m
            /\ st.taken = <<m>>
       ELSE /\ st.ret = RecvOk("try", n, FALSE, NoVec)
            /\ st.taken = <<>>
            /\ st.buf = Filler(Len(st.buf))
            /\ pipeQ # <<>> /\ Head(pipeQ) = m

RecvContract(m) ==
    LET st == rcv[1]
        n == Len(m)
    IN /\ st.taken = <<m>>
       /\ IF n <= Len(st.buf)
          THEN st.ret = RecvOk("Fit", n, TRUE, NoVec) /\ SubSeq(st.buf, 1, n) = m
          ELSE st.ret = RecvOk("Alloc", n, FALSE, m)

-----------------------------------------------------------------------------
(* Claims about the message stream as a whole (one sender, one receiver) *)

IsPrefix(a, b) == Len(a) <= Len(b) /\ SubSeq(b, 1, Len(a)) = a

NonEmptyOnly(log) == SelectSeq(log, LAMBDA m : m # <<>>)

\* Nothing is queued or in the hands of a call: all that was sent has been
\* dealt with.
AllDrained == pipeQ = <<>> /\ rcv[1].pc = "idle"

ReturnedAtEnd == rcv[1].pc = "done" /\ rcv[1].atEnd

\* C12: after the peer has closed and every queued message has been received,
\* the next receive / try_receive returns a result of size 0, not an error.
C12_EndReturnsZero ==
    ReturnedAtEnd => rcv[1].ret.tag = "ok" /\ rcv[1].ret.size = 0

-----------------------------------------------------------------------------
(* Claims about the life cycle of a stream and its handle *)

SomeHalfLive == strm.own = "halves" /\ \E h \in Halves : half[h] = "live"

CountOf(c) == Cardinality({i \in DOMAIN calls : calls[i] = c})

\* Every owner of the handle has been dropped (ownership was not given away
\* through into_raw_handle).
OwnersGone ==
    \/ strm.own = "nobody"
    \/ strm.own = "halves" /\ \A h \in Halves : half[h] = "dropped"

\* C13: after split, while at least one half is live the shared handle is
\* neither closed nor disconnected, and an operation of a half finds the
\* handle valid also after the other half was dropped.
C13_OpenWhileHalfLive ==
    /\ SomeHalfLive => hopen /\ calls = <<>>
    /\ lastIo.by \in Halves => lastIo.valid

\* C13 witness: one half was dropped, the other is live and has since done an
\* operation on the handle, which worked.
C13_Witness ==
    /\ SomeHalfLive
    /\ \E h \in Halves : half[h] = "dropped"
    /\ lastIo.by \in Halves /\ lastIo.alone /\ lastIo.valid

\* C14: the handle is closed at most once, and exactly once by the time every
\* owner has been dropped (a stream turned into a raw handle has no owner to
\* drop).
C14_ClosedExactlyOnce ==
    /\ CountOf(CloseHandle) <= 1
    /\ OwnersGone => CountOf(CloseHandle) = 1 /\ ~hopen

\* C14 witness: a stream was split and both halves were dropped; one
\* CloseHandle was issued.
C14_Witness ==
    /\ strm.own = "halves"
    /\ OwnersGone
    /\ lop.op = "drop_half"
    /\ CountOf(CloseHandle) = 1

\* C18: disconnect_without_flushing on a client-role stream or on a split
\* stream returns an error and issues nothing on the handle, which stays as
\* it was.
C18_UsageErrorNoEffect ==
    (lop.op = "disconnect_without_flushing" /\ (~strm.is_server \/ lop.is_split)) =>
        /\ IsErr(lop.res)
        /\ lop.issued = <<>>
        /\ hopen = lop.wasOpen

\* C19: a successful disconnect_without_flushing on a server-role stream issues
\* one DisconnectNamedPipe and no flush, then one CloseHandle; the drop glue of
\* the stream issues nothing more.
C19_DisconnectedOnceThenClosed ==
    (lop.op = "disconnect_without_flushing" /\ strm.is_server /\ IsOk(lop.res)) =>
        /\ lop.issued = <<DisconnectNamedPipe, CloseHandle>>
        /\ calls = lop.issued
        /\ ~hopen

\* C19 witness: disconnect_without_flushing has succeeded on a server stream.
C19_Witness ==
    /\ lop.op = "disconnect_without_flushing"
    /\ strm.is_server
    /\ IsOk(lop.res)
    /\ strm.own = "nobody"

\* C20: the drop of an unsplit stream flushes and disconnects before it
\* releases the handle when the role is server, and only releases the handle
\* when the role is client.
C20_DropDisconnectsServerOnly ==
    lop.op = "drop" =>
        lop.issued = IF strm.is_server
                     THEN <<FlushFileBuffers, DisconnectNamedPipe, CloseHandle>>
                     ELSE <<CloseHandle>>

\* A stream exists and owns the handle (whole or split).
StreamOwns == strm.own \in {"stream", "halves"}

FromRawHandleErrorKinds ==
    {"IsServerCheckFailed", "MessageBoundariesCheckFailed", "NoMessageBoundaries"}

\* C21: no stream with the Messages read mode exists on a pipe without message
\* boundaries: from_raw_handle asked for such a stream builds none and ends in a
\* panic (the macro-generated types) or in an error (PipeStream), and no later
\* operation turns a stream into one.
C21_NoMessagesStreamWithoutBoundaries ==
    /\ (StreamOwns /\ strm.read_mode = "Messages") => strm.msg_bnd
    /\ (lop.op = "from_raw_handle" /\ strm.read_mode = "Messages" /\ ~strm.msg_bnd) =>
          /\ strm.own = "raw"
          /\ IF strm.kind = "PipeStream"
             THEN IsErr(lop.res) /\ lop.res.err.payload \in FromRawHandleErrorKinds
             ELSE lop.panicked

\* C21 witness: PipeStream::from_raw_handle with a Messages read mode, given
\* the handle of a byte pipe, has returned the NoMessageBoundaries error.
C21_Witness ==
    /\ lop.op = "from_raw_handle"
    /\ strm.kind = "PipeStream"
    /\ strm.read_mode = "Messages"
    /\ ~strm.msg_bnd
    /\ IsErr(lop.res)
    /\ lop.res.err.payload = "NoMessageBoundaries"
    /\ lop.res.err.kind = "InvalidInput"

\* C22: when into_raw_handle has returned the handle, nothing was called on it:
\* no close, no disconnect, no flush; the handle is still open for the caller.
C22_IntoRawIssuesNothing ==
    (lop.op = "into_raw_handle" /\ ~lop.panicked) =>
        /\ lop.issued = <<>>
        /\ hopen = lop.wasOpen

-----------------------------------------------------------------------------
(* Claims about split halves of a socket stream: reunite and half-close *)

\* C15: reunite succeeds if and only if both halves come from the same split;
\* the stream it returns owns the descriptor of the stream that was split,
\* is one value again (no half left), has its socket as it was, and answers
\* the same peer credentials.
C15_ReuniteIffSameSplit ==
    ulast.op = "reunite" =>
        /\ (ulast.tag = "ok") <=> (ulast.a = ulast.b)
        /\ ulast.tag = "ok" =>
              /\ ud[ulast.a] = [own |-> "stream", fd |-> Fd(ulast.a)]
              /\ uhalf[ulast.a] = [r |-> NoHalf, w |-> NoHalf]
              /\ usock = ulast.usock0
              /\ c_wrappers_get_peer_ucred(ud[ulast.a].fd) =
                     OwnedReadHalf_get_peer_credentials(ulast.uhalf0[ulast.a].r)
              /\ c_wrappers_get_peer_ucred(ud[ulast.a].fd).pid = PeerPid(Fd(ulast.a))

\* C15 witness: the two halves of one split have been reunited.
C15_Witness ==
    /\ ulast.op = "reunite"
    /\ ulast.tag = "ok"
    /\ ulast.a = ulast.b
    /\ ud[ulast.a].own = "stream"

\* C16: reuniting the read half of one stream with the write half of another
\* fails; the error carries both halves as they were, both are still live,
\* and neither socket was closed or shut down.
C16_MismatchReturnsBothHalves ==
    (ulast.op = "reunite" /\ ulast.a # ulast.b) =>
        /\ ulast.tag = "err"
        /\ ulast.r = ulast.uhalf0[ulast.a].r
        /\ ulast.w = ulast.uhalf0[ulast.b].w
        /\ uhalf = ulast.uhalf0
        /\ uhalf[ulast.a].r.st = "live" /\ uhalf[ulast.b].w.st = "live"
        /\ ud[ulast.a].own = "halves" /\ ud[ulast.b].own = "halves"
        /\ usock = ulast.usock0
        /\ \A fd \in {Fd(ulast.a), Fd(ulast.b)} : usock[fd].open

\* C16 witness: a reunite of halves of two different streams has failed.
C16_Witness ==
    /\ ulast.op = "reunite"
    /\ ulast.a # ulast.b
    /\ ulast.tag = "err"
    /\ ulast.r.st = "live" /\ ulast.w.st = "live"

\* C17: shutdown() on the read half shuts down the read direction of that
\* stream's socket and nothing else: the descriptor stays open, its write
\* direction stays up, the halves are as they were; and a write through a
\* write half succeeds.
C17_ReadShutdownLeavesWrite ==
    /\ ulast.op = "shutdown" =>
          /\ usock[Fd(ulast.a)] = [ulast.usock0[Fd(ulast.a)] EXCEPT !.rd = FALSE]
          /\ \A fd \in Fds \ {Fd(ulast.a)} : usock[fd] = ulast.usock0[fd]
          /\ uhalf = ulast.uhalf0
    /\ ulast.op = "write" => ulast.tag = "ok"

\* C17 witness: a write through the write half has succeeded after the read
\* half of the same stream was shut down.
C17_Witness ==
    /\ ulast.op = "write"
    /\ ulast.tag = "ok"
    /\ ~usock[Fd(ulast.a)].rd
    /\ uhalf[ulast.a].r.st = "live"

-----------------------------------------------------------------------------
(* Claims about the ancillary data codec *)

\* The records of the buffer that the current pass has parsed.
Parsed == DOMAIN cres

KnownTypes == {FileDescriptors_TYPE, Credentials_TYPE}

\* C23: a record whose level is not LEVEL yields WrongLevel with expected =
\* LEVEL and got = the record's level, whatever its type and payload, and
\* neither payload parser is invoked.
C23_WrongLevel ==
    \A i \in Parsed :
        cbuf[i].cmsg_level # LEVEL =>
            /\ cres[i].tag = "err"
            /\ cres[i].kind = WrongLevel(Some(LEVEL), cbuf[i].cmsg_level)
            /\ cres[i].called = "none"

\* C23 witness: a record of another level that has the descriptor type and a
\* payload of one descriptor was parsed to WrongLevel.
C23_Witness ==
    \E i \in Parsed :
        /\ cbuf[i].cmsg_level # LEVEL
        /\ cbuf[i].cmsg_type = FileDescriptors_TYPE
        /\ Len(cbuf[i].data) = SizeOfInt
        /\ cres[i].kind.name = "WrongLevel"

\* C24: a record of the level LEVEL whose type is neither the descriptor type
\* nor the credentials type yields WrongType with no expected type and got =
\* the record's type; the pass goes on and a message that follows it is parsed.
C24_WrongTypeNonFatal ==
    \A i \in Parsed :
        (cbuf[i].cmsg_level = LEVEL /\ cbuf[i].cmsg_type \notin KnownTypes) =>
            /\ cres[i].tag = "err"
            /\ cres[i].kind = WrongType(NoneOpt, cbuf[i].cmsg_type)
            /\ cres[i].called = "none"
            /\ \A j \in Parsed :
                  (j > i /\ corig[j] # NoMsg) => cres[j].tag = "ok" /\ cres[j].msg = corig[j]

\* C24 witness: a record of an unknown type was answered with WrongType and
\* the message after it was parsed.
C24_Witness ==
    \E i \in Parsed, j \in Parsed :
        /\ j > i
        /\ cbuf[i].cmsg_level = LEVEL
        /\ cbuf[i].cmsg_type \notin KnownTypes
        /\ cres[i].kind.name = "WrongType"
        /\ corig[j] # NoMsg
        /\ cres[j].tag = "ok"

\* C25: a descriptor-array record whose payload length is not a multiple of
\* the size of one descriptor yields a malformed-payload error.
C25_PartialDescriptorRejected ==
    \A i \in Parsed :
        (/\ cbuf[i].cmsg_level = LEVEL
         /\ cbuf[i].cmsg_type = FileDescriptors_TYPE
         /\ Len(cbuf[i].data) % SizeOfInt # 0) =>
            /\ cres[i].tag = "err"
            /\ cres[i].kind.name = "MalformedPayload"

\* C26: a credentials record whose payload is not of the size of the
\* credentials structure yields a malformed-payload error of the SizeMismatch
\* kind with the expected and the actual size; one of that size yields a
\* Credentials message.
C26_CredentialsSize ==
    \A i \in Parsed :
        (cbuf[i].cmsg_level = LEVEL /\ cbuf[i].cmsg_type = Credentials_TYPE) =>
            IF Len(cbuf[i].data) # SizeOfUcred
            THEN /\ cres[i].tag = "err"
                 /\ cres[i].kind.name = "MalformedPayload"
                 /\ cres[i].kind.variant = "Credentials"
                 /\ cres[i].kind.sizes =
                        [expected |-> SizeOfUcred, got |-> Len(cbuf[i].data)]
            ELSE /\ cres[i].tag = "ok"
                 /\ cres[i].msg.variant = "Credentials"

\* C26 witness: a credentials record one byte too long was answered with the
\* size mismatch, and one of the right size with a Credentials message.
C26_Witness ==
    \E i \in Parsed, j \in Parsed :
        /\ cbuf[i].cmsg_level = LEVEL /\ cbuf[i].cmsg_type = Credentials_TYPE
        /\ Len(cbuf[i].data) = SizeOfUcred + 1
        /\ cres[i].kind.sizes.got = SizeOfUcred + 1
        /\ cbuf[j].cmsg_level = LEVEL /\ cbuf[j].cmsg_type = Credentials_TYPE
        /\ Len(cbuf[j].data) = SizeOfUcred
        /\ cres[j].msg.variant = "Credentials"

\* C27: round trip: the record constructed from a message parses, and to that
\* message.
C27_RoundTrip ==
    \A i \in Parsed :
        corig[i] # NoMsg => cres[i].tag = "ok" /\ cres[i].msg = corig[i]

\* C27 witness: a descriptor array with a descriptor above one byte and a
\* credentials message with a pid above two bytes were constructed, sent and
\* parsed back.
C27_Witness ==
    \E i \in Parsed, j \in Parsed :
        /\ corig[i].variant = "FileDescriptors"
        /\ \E k \in DOMAIN corig[i].fds : corig[i].fds[k] >= ByteRange
        /\ cres[i].msg = corig[i]
        /\ corig[j].variant = "Credentials"
        /\ corig[j].pid >= ByteRange * ByteRange
        /\ cres[j].msg = corig[j]

\* C28: a pass yields one result per record, in the order of the records and
\* no more than there are records; the result of a record is the same wherever
\* the record stands and whatever came before it; an error carries the record
\* it is about; a pass started over yields what the pass before it yielded.
C28_OneResultPerRecord ==
    /\ Len(cres) <= Len(cbuf)
    /\ \A i \in Parsed : cres[i].tag = "err" => cres[i].cmsg = cbuf[i]
    /\ \A i \in Parsed :
          cres[i].tag = "ok" =>
              /\ cbuf[i].cmsg_level = LEVEL
              /\ cbuf[i].cmsg_type =
                     IF cres[i].msg.variant = "Credentials"
                     THEN Credentials_TYPE ELSE FileDescriptors_TYPE
    /\ \A i \in Parsed, j \in Parsed : cbuf[i] = cbuf[j] => cres[i] = cres[j]
    /\ cprev # <<>> => cres = SubSeq(cprev, 1, Len(cres))

\* C28 witness: a second pass over a buffer of an erroneous record followed by
\* a well-formed one has ended, after a first complete pass.
C28_Witness ==
    /\ Len(cbuf) >= 2
    /\ Len(cres) = Len(cbuf)
    /\ cprev # <<>>
    /\ cres[1].tag = "err"
    /\ cres[2].tag = "ok"

-----------------------------------------------------------------------------
(* Claims about the concurrent exchange over split streams and about         *)
(* asynchronous reads                                                        *)

AllJoined == \A c \in Conns, e \in Endpoints : dep[c][e].pc = "done"

\* C29: on every connection both endpoints, each writing its line through the
\* send half while it reads a line through the receive half, come to the end
\* of their four operations, and each has then read the line the other end of
\* the same connection wrote, byte for byte and no byte of another connection.
C29_BothLinesExchanged ==
    /\ <>[]AllJoined
    /\ [](\A c \in Conns, e \in Endpoints :
            dep[c][e].pc = "done" =>
                /\ dep[c][e].eq
                /\ dep[c][e].line = Wire(c, Expected(e)))

\* C29 witness: every endpoint of every connection has returned from try_join!
\* with the other end's line, over pipes that hold less than a line.
C29_Witness ==
    /\ AllJoined
    /\ PipeCap < Len(SERVER_MSG)
    /\ \A c \in Conns, e \in Endpoints : dep[c][e].eq /\ dep[c][e].sent = Len(MsgOf(e))

\* The bytes the peer has sent so far, in order.
PollSent == [i \in 1..(pnext - 1) |-> i]

\* C30: a poll that is pending has taken no byte off the connection, a poll
\* that is ready reports as many bytes as it took, and a failed one took none;
\* so at every moment, also after a pending future was dropped, the bytes
\* reported so far followed by the bytes still queued are the bytes sent.
C30_NoByteConsumedUnreported ==
    /\ plast.poll.tag = "Pending" => plast.filled = <<>>
    /\ (plast.poll.tag = "Ready" /\ IsOk(plast.poll.res)) =>
           plast.poll.res.val = Len(plast.filled)
    /\ (plast.poll.tag = "Ready" /\ IsErr(plast.poll.res)) => plast.filled = <<>>
    /\ pgot \o pq = PollSent

\* C30 witness: after bytes were read, a pending read future was dropped and
\* bytes that arrived since are still queued.
C30_Witness ==
    /\ pfut = "dropped"
    /\ plast.poll.tag = "Pending"
    /\ pgot # <<>>
    /\ pq # <<>>

-----------------------------------------------------------------------------
(* Further claims about try_recv_msg and recv_msg *)

\* What C35 says of the result tr of try_recv_msg on a buffer of buflen bytes.
TryRecvResultSound(tr, buflen) ==
    tr.tag = "ok" =>
        /\ tr.size > 0
        /\ tr.fit => tr.size <= buflen
        /\ ~tr.fit => tr.size > buflen

\* C35: a successful result of try_recv_msg has size > 0, fit = true only with
\* size <= len(buf) and fit = false only with size > len(buf).
C35_TryRecvResultSound ==
    \A r \in Receivers : TryRecvResultSound(rcv[r].try, Len(rcv[r].buf))

\* C35 witness: try_recv_msg read a zero-length message, went round the loop
\* and returned the message after it, which fitted.
C35_Witness ==
    /\ rcv[1].try.tag = "ok"
    /\ rcv[1].try.fit
    /\ Len(rcv[1].taken) = 2
    /\ rcv[1].taken[1] = <<>>
    /\ rcv[1].try.size = Len(rcv[1].taken[2])

\* The queue holds whole messages only: it is the tail of what was sent.
QueueIsTailOfSent ==
    \E k \in 0..Len(sentLog) : pipeQ = SubSeq(sentLog, k + 1, Len(sentLog))

\* C36: with two receivers at work on one stream, a call that returns fit =
\* true has read a message, and no read leaves a part of a message behind: the
\* queue holds whole sent messages at all times, so what a call returns is a
\* whole message and each message goes to one receiver.
C36_WholeMessagesUnderConcurrency ==
    /\ QueueIsTailOfSent
    /\ \A r \in Receivers :
          (rcv[r].pc = "done" /\ rcv[r].ret.tag = "ok" /\ rcv[r].ret.fit) =>
              rcv[r].taken # <<>>

\* Receiver 1 is inside the loop of try_recv_msg.
InTryRecv == rcv[1].pc \in {"peek", "read"}

NonEmptyQueued == \E i \in DOMAIN pipeQ : pipeQ[i] # <<>>

-----------------------------------------------------------------------------
(* Further claims about the life cycle of a stream and its handle *)

\* PipeStream::from_raw_handle has failed.
FromRawHandleFailed ==
    /\ lop.op = "from_raw_handle"
    /\ strm.kind = "PipeStream"
    /\ IsErr(lop.res)

\* C37: when PipeStream::from_raw_handle fails the caller gets no stream; after
\* a failed role check nothing was called on the handle, which is still open;
\* after a failed boundary check (the query failed, or the pipe has no message
\* boundaries) the handle was disconnected if its role is server and then
\* closed.
C37_FailedFromRawHandleDisposition ==
    FromRawHandleFailed =>
        /\ strm.own = "raw"
        /\ lop.res.err.payload \in FromRawHandleErrorKinds
        /\ lop.res.err.payload = "IsServerCheckFailed" =>
              /\ lop.issued = <<>>
              /\ hopen
        /\ lop.res.err.payload \in {"MessageBoundariesCheckFailed", "NoMessageBoundaries"} =>
              /\ lop.issued = IF strm.is_server
                              THEN <<DisconnectNamedPipe, CloseHandle>>
                              ELSE <<CloseHandle>>
              /\ ~hopen

\* C37 witness: the boundary query failed on a server-role handle; the handle
\* was disconnected and closed and no stream was built.
C37_Witness ==
    /\ FromRawHandleFailed
    /\ strm.is_server
    /\ lop.res.err.payload = "MessageBoundariesCheckFailed"
    /\ lop.issued = <<DisconnectNamedPipe, CloseHandle>>
    /\ ~lop.panicked
    /\ strm.own = "raw"

\* What is issued on the handle after the native disconnect of
\* disconnect_without_flushing, that is from the return of the call on.
AfterDisconnect == SubSeq(lop.issued, 2, Len(lop.issued))

\* C38: disconnect_without_flushing consumes the stream whatever it returns:
\* after success only the handle is released (no flush, no second disconnect);
\* after a failure the error is returned and the drop of the stream runs, for
\* a server role the flush and disconnect of an ordinary drop, and then the
\* handle is closed. The handle is closed after the call in both cases.
C38_DisconnectWithoutFlushingConsumes ==
    lop.op = "disconnect_without_flushing" =>
        /\ strm.own = "nobody"
        /\ ~hopen
        /\ lop.issued # <<>> /\ lop.issued[Len(lop.issued)] = CloseHandle
        /\ IsOk(lop.res) => AfterDisconnect = <<CloseHandle>>
        /\ IsErr(lop.res) =>
              AfterDisconnect = IF strm.is_server
                                THEN <<FlushFileBuffers, DisconnectNamedPipe, CloseHandle>>
                                ELSE <<CloseHandle>>

\* C38 witness: the native disconnect failed on a server-role stream; the
\* error was returned, the stream was dropped as usual and the handle closed.
C38_Witness ==
    /\ lop.op = "disconnect_without_flushing"
    /\ strm.is_server
    /\ IsErr(lop.res)
    /\ lop.issued = <<DisconnectNamedPipe, FlushFileBuffers, DisconnectNamedPipe, CloseHandle>>
    /\ ~hopen

\* C40: once a server-role stream is split, nothing is issued on the handle
\* while a half is still to be dropped (the drop of the first half issues no
\* disconnect and no close); the drop of the last half issues one
\* DisconnectNamedPipe and then the CloseHandle, whichever half that is.
C40_DisconnectOnceAtLastHalf ==
    (strm.own = "halves" /\ strm.is_server) =>
        /\ ~OwnersGone => calls = <<>> /\ hopen
        /\ OwnersGone =>
              /\ calls = <<DisconnectNamedPipe, CloseHandle>>
              /\ lop.op = "drop_half"
              /\ lop.issued = calls

\* C40 witness: both halves of a server-role stream have been dropped, and the
\* drop of the last one disconnected and closed.
C40_Witness ==
    /\ strm.own = "halves"
    /\ strm.is_server
    /\ \A h \in Halves : half[h] = "dropped"
    /\ strong = 0
    /\ CountOf(DisconnectNamedPipe) = 1
    /\ ~hopen

\* The drop glue of a stream has run: the drop of an unsplit stream, or of the
\* last of its halves.
Dropped == lop.op \in {"drop", "drop_half"}

\* C33: a stream that connect or connect_to_remote built is client-role as
\* long as it exists, whole or split (is_server is false, is_client true, each
\* the negation of the other), and its drop issues no DisconnectNamedPipe.
C33_ConnectedStreamIsClient ==
    /\ PipeStream_is_client(strm) = ~PipeStream_is_server(strm)
    /\ strm.origin = "connect" =>
          /\ ~PipeStream_is_server(strm)
          /\ PipeStream_is_client(strm)
          /\ Dropped => DisconnectNamedPipe \notin Range(lop.issued)

\* C33 witness: a stream built by connect was split and both halves were
\* dropped; the handle was closed and never disconnected.
C33_Witness ==
    /\ strm.origin = "connect"
    /\ strm.own = "halves"
    /\ lop.op = "drop_half"
    /\ calls = <<CloseHandle>>
    /\ ~hopen

-----------------------------------------------------------------------------
(* Further claims about asynchronous I/O through the wrappers *)

\* C34: a poll_read through the read half or the facade is pending exactly
\* when the poll of the inner stream is, returns the inner error as it is, and
\* on success returns the number of bytes the inner read filled, between 0 and
\* the length of the buffer; poll_write, poll_flush and poll_close of the facade
\* return the result of the stream underneath.
C34_PollsAddNothing ==
    /\ plast.via # "none" =>
          /\ (plast.poll.tag = "Pending") <=> (plast.inner.tag = "Pending")
          /\ (plast.inner.tag = "Ready" /\ IsErr(plast.inner.res)) => plast.poll = plast.inner
          /\ (plast.inner.tag = "Ready" /\ IsOk(plast.inner.res)) =>
                /\ plast.poll.tag = "Ready" /\ IsOk(plast.poll.res)
                /\ plast.poll.res.val = Len(plast.filled)
                /\ plast.poll.res.val \in 0..plast.n
    /\ plast.wr.op # "none" => plast.wr.poll = plast.wr.inner

\* C34 witness: a poll_read through the facade returned the inner error, and a
\* poll_write through the facade was pending on a full send buffer.
C34_Witness ==
    /\ plast.via = "LocalSocketStream"
    /\ plast.poll.tag = "Ready" /\ IsErr(plast.poll.res)
    /\ plast.before # <<>>
    /\ plast.wr.op = "poll_write"
    /\ plast.wr.poll.tag = "Pending"

\* C32: an OS error that a native call answered during a drop (the close of a
\* stream) or during disconnect_without_flushing reaches the caller: it is
\* returned with its OS code, or at least raised as a panic; it is not
\* discarded.
C32_NoOsErrorSwallowed ==
    IsErr(lop.oserr) =>
        \/ IsErr(lop.res) /\ lop.res.err.code = lop.oserr.err.code
        \/ lop.panicked

-----------------------------------------------------------------------------
(* Further claims about the operations of the stream types *)

ByteReads == {"read", "Read::read"}

MessageSends == {"send", "MsgWriterPipeStream::write", "DuplexMsgPipeStream::write"}

\* C31: an operation was invoked only on a stream type whose tags allow it: a
\* byte read only with the read tag Bytes, a byte write only with the write
\* tag Bytes, a send only with the write tag Messages, a flush only with a
\* write tag other than None.
C31_OperationsGatedByTags ==
    /\ ioOp \in ByteReads => ioTy.read = "Bytes"
    /\ ioOp = "write" => ioTy.write = "Bytes"
    /\ ioOp \in MessageSends => ioTy.write = "Messages"
    /\ ioOp = "flush" => ioTy.write # "None"

====
